---- MODULE Spec2Model ----
(***************************************************************************)
(* State-machine model of lsst.ts.mtdomecom.MTDomeCom (mtdome_com.py): the *)
(* TCP/IP bridge to the MTDome controller.  The model follows the asyncio  *)
(* tasks of the bridge (callers of the operations, the status poller, the  *)
(* command-queue processor) between their suspension points, the link to   *)
(* the controller, and the controller's replies.                           *)
(***************************************************************************)
EXTENDS Integers, Sequences, FiniteSets, TLC

(***************************************************************************)
(* Bounds of the model.                                                    *)
(***************************************************************************)
\* Largest commandId the model hands out (the generator itself is unbounded).
MaxCommands == 4
\* Largest number of commands waiting in the scheduler queue.
MaxQueue == 1
\* Largest number of commands scheduled in the queue of the handler when it
\* is called on its own.
MaxHandlerQueue == 3
\* Largest number of subsystems in the mask of exit_fault.
MaxMasked == 2

(***************************************************************************)
(* Names.                                                                  *)
(***************************************************************************)
None == "none"

\* asyncio tasks: two callers of the operations API, the query_status
\* periodic task and the process_command_queue task.
OpTasks == {"op1", "op2"}
Poller == "poller"
Pcq == "pcq"
Tasks == OpTasks \cup {Poller, Pcq}

NO_POWER_MANAGEMENT == "NO_POWER_MANAGEMENT"
OPERATIONS == "OPERATIONS"
EMERGENCY == "EMERGENCY"
MAINTENANCE == "MAINTENANCE"
PowerManagementMode == {NO_POWER_MANAGEMENT, OPERATIONS, EMERGENCY, MAINTENANCE}
\* The modes that the model asks set_power_management_mode for.
RequestedModes == {NO_POWER_MANAGEMENT, OPERATIONS, EMERGENCY}

\* ValidSimulationMode
NORMAL_OPERATIONS == 0
SIMULATION_WITH_MOCK_CONTROLLER == 1
SIMULATION_WITHOUT_MOCK_CONTROLLER == 2
ValidSimulationMode == {NORMAL_OPERATIONS, SIMULATION_WITH_MOCK_CONTROLLER,
                        SIMULATION_WITHOUT_MOCK_CONTROLLER}

\* ResponseCode
OK == 0
NOT_CONNECTED == 1
UNSUPPORTED == 2
INCORRECT_PARAMETERS == 3
INCORRECT_STATE == 5
ROTATING_PART_NOT_RECEIVED == 6
\* The response codes of the replies of the model.
ResponseCodes == {OK, INCORRECT_STATE}

\* The lower level components that the model polls, in LlcName order.
LlcOrder == <<"AMCS", "LWSCS">>
LlcNames == {LlcOrder[i] : i \in 1..Len(LlcOrder)}

STATUS_POKE_PERIODS == [l \in LlcNames |-> IF l = "AMCS" THEN 2 ELSE 5]

StatusCommand(l) == "status" \o l
StatusCommands == {StatusCommand(l) : l \in LlcNames}
LlcOfStatus(c) == CHOOSE l \in LlcNames : StatusCommand(l) = c

\* Commands of the operations the model calls: moveAz is written directly,
\* the others go through _schedule_command_if_power_management_active.
DirectCommands == {"moveAz"}
POWER_MANAGEMENT_COMMANDS == {"moveEl", "openShutter"}
COMMANDS_DISABLED_FOR_COMMISSIONING == {"moveEl"}

\* The parameters that the model calls an operation with.
ParamsOfCall(c) == IF c = "moveEl" THEN {"1"} ELSE {"{}"}

\* command_name.startswith("status")
IsStatus(c) == c \in StatusCommands

NoCommand == [command |-> None, id |-> 0, sent |-> FALSE]

\* The constructor arguments the model starts from.
SimulationModes == {NORMAL_OPERATIONS, SIMULATION_WITH_MOCK_CONTROLLER}
CallbackSets == {{"AMCS"}, {"AMCS", "LWSCS"}}

\* The callers are interchangeable: a caller starts an operation only when
\* the callers before it are busy.
OpOrder == <<"op1", "op2">>

\* The periodic tasks created by _start_periodic_tasks.
PeriodicTaskNames == {"query_status", "check_all_commands_have_replies",
                      "process_command_queue"}

VARIABLES
    simulation_mode,          \* self.simulation_mode
    telemetry_callbacks,      \* keys of self.telemetry_callbacks
    blocking_callbacks,       \* the LLCs whose telemetry callback does not return
    polling,                  \* the task of query_status over every LlcName
    thcs,                     \* the ThcsStatus of the mock controller
    lwscs,                    \* the LwscsStatus of the mock controller
    watchdog,                 \* the send times of commands_without_reply and the reply watchdog
    conversion,               \* the last conversion of angles: the arguments of move_az
                              \* and the parameters of its command, or a status and
                              \* the telemetry made of it
    client,                   \* "none": self.client is None; "open"; "closed": client kept, link down
    mock_ctrl,                \* TRUE iff self.mock_ctrl is a running mock controller
    run_periodic_tasks,       \* self.run_periodic_tasks
    periodic_tasks,           \* names of the tasks in self.periodic_tasks
    task_alive,               \* names of the periodic tasks that have not ended
    lock_holder,              \* task holding self.communication_lock, or None
    lock_waiters,             \* FIFO of the tasks waiting for self.communication_lock
    has_non_status_command,   \* self._has_non_status_command
    index_iter,               \* next value of MTDomeCom._index_iter
    commands_without_reply,   \* self.commands_without_reply: commandId -> command
    power_management_mode,    \* self.power_management_mode
    handler_mode,             \* self.power_management_handler.power_management_mode
    command_queue,            \* self.power_management_handler.command_queue, as its heap list
    status_command_counts,    \* self._status_command_counts
    pc,                       \* position of every task
    cur,                      \* per task: the command of its write_then_read_reply call, the
                              \* commandId while the call runs, and whether it was written
    poll_pos,                 \* index in the query_status loop
    link,                     \* commands written to the link whose reply has not been read
    \* history variables
    written,                  \* keys of commands_without_reply whose command was written to the link
    id_log,                   \* all commandIds in order of assignment
    status_ahead,             \* per task: status commands written since it set the flag
    silent_failure,           \* TRUE iff a command of an operation that returned normally
                              \* has failed or has been discarded
    window,                   \* per LLC: what the last ticks of the current run did for it
    after_disconnect,         \* TRUE iff the last lifecycle call that returned was disconnect()
    lower_level_status,       \* self.lower_level_status: LLC -> last status stored
    communication_error_report, \* self.communication_error_report: empty, or one report
    last_callback,            \* what the telemetry callback awaited last was called with
    llc_power,                \* controller: the power that each subsystem draws
    llc_under_test,           \* the mock lower level component whose methods are called
    current_tai,              \* mock controller: self.current_tai
    amcs,                     \* mock controller: self.amcs (AmcsStatus)
    apscs,                    \* mock controller: self.apscs (ApscsStatus)
    lcs,                      \* mock controller: self.lcs (LcsStatus)
    ctrl,                     \* mock controller: self._command_id and the switches
                              \* communication_error and enable_network_interruption
    dispatched,               \* the last command that the mock controller has read, the
                              \* replies it wrote and the method it called
    plant_call,               \* the last method called on the component under test, whether
                              \* it raised, and how far a recovery from a fault has got
    exit_fault_run,           \* the exit_fault call of a caller: its mask, the commands whose
                              \* call has ended, the command of the running call, and the rest
    schedule_order,           \* the entries of command_queue in the order they were put in
    pm_call                   \* arguments and result of the last direct call of get_next_command

vars == <<simulation_mode, telemetry_callbacks, blocking_callbacks, conversion,
          thcs, lwscs, watchdog, polling,
          client, mock_ctrl,
          run_periodic_tasks, periodic_tasks, task_alive, lock_holder,
          lock_waiters, has_non_status_command, index_iter,
          commands_without_reply, power_management_mode, handler_mode,
          command_queue, status_command_counts, pc, cur, poll_pos, link,
          written, id_log, status_ahead, silent_failure, window,
          after_disconnect, lower_level_status,
          communication_error_report, last_callback, llc_power,
          llc_under_test, current_tai, amcs, apscs, lcs, ctrl, dispatched,
          plant_call, exit_fault_run, schedule_order, pm_call>>

\* Groups of variables, for UNCHANGED.
constructedVars == <<simulation_mode, telemetry_callbacks, blocking_callbacks>>
\* What no operation of the bridge and of the mock controller changes.
configVars == <<constructedVars, conversion, thcs, lwscs, watchdog, polling>>
lifeVars == <<client, mock_ctrl, run_periodic_tasks, periodic_tasks, task_alive,
              after_disconnect>>
lockVars == <<lock_holder, lock_waiters>>
pmVars == <<power_management_mode, handler_mode, command_queue, schedule_order>>
ctrlVars == <<ctrl, dispatched>>
mockVars == <<llc_under_test, current_tai, amcs, apscs, lcs, plant_call, ctrlVars>>
plantVars == <<llc_power, mockVars>>
callVars == <<pm_call, plantVars, exit_fault_run>>
reportVars == <<lower_level_status, communication_error_report, last_callback>>
pollVars == <<status_command_counts, window, reportVars>>
histVars == <<written, id_log, status_ahead, silent_failure>>

(***************************************************************************)
(* connected property (lines 337-339).                                     *)
(***************************************************************************)
connected == client = "open"

(***************************************************************************)
(* asyncio.Lock: acquire takes a free lock at once, otherwise the task     *)
(* joins the FIFO of waiters; release hands the lock to the first waiter.  *)
(***************************************************************************)
\* Faulty variant of Acquire: the lock is handed out while it is held.
BargingAcquire(t) == [holder |-> t, waiters |-> lock_waiters]

Acquire(t) ==
    IF lock_holder = None /\ lock_waiters = <<>>
    THEN [holder |-> t, waiters |-> lock_waiters]
    ELSE [holder |-> lock_holder, waiters |-> Append(lock_waiters, t)]

Release ==
    IF lock_waiters = <<>>
    THEN [holder |-> None, waiters |-> <<>>]
    ELSE [holder |-> Head(lock_waiters), waiters |-> Tail(lock_waiters)]

\* Faulty variant of NextCommandId: the generator wraps around after two ids.
WrappedCommandId == ((index_iter - 1) % 2) + 1

\* next(self._index_iter) (line 677): the value handed out.
NextCommandId == index_iter

\* The commands that write_then_read_reply answers itself (lines 698-702).
DisabledCommands ==
    IF simulation_mode = NORMAL_OPERATIONS
    THEN COMMANDS_DISABLED_FOR_COMMISSIONING
    ELSE {}

\* dict.pop(key) / dict[key] = value on commands_without_reply.
DictPut(d, k, v) == [i \in DOMAIN d \cup {k} |-> IF i = k THEN v ELSE d[i]]
DictPop(d, k) == [i \in DOMAIN d \ {k} |-> d[i]]

\* A caller that is not inside an operation.
Free(t) == pc[t] \in {"idle", "returned", "raised"}

CanStart(t) ==
    /\ Free(t)
    /\ \A i, j \in 1..Len(OpOrder) : (i < j /\ OpOrder[j] = t) => ~Free(OpOrder[i])

\* The callback of the LLC is awaited once more (lines 1322, 1336).
Called(w) ==
    IF w = <<>> THEN w
    ELSE [w EXCEPT ![Len(w)] = IF @ = "requested" THEN "called" ELSE "called_twice"]

\* self.communication_error_report as a sequence: empty for {}, or the one
\* report {"command_name", "exception", "response_code"}.
ErrorReport(command_name, exception, response_code) ==
    <<[command_name |-> command_name, exception |-> exception,
       response_code |-> response_code]>>

\* Faulty variant of ReportOfResponse: the report is left as it is when a
\* reply is not OK.
StaleReport(command_name, response) == communication_error_report

\* The report after a reply with this response was read (lines 735-755).
ReportOfResponse(command_name, response) ==
    IF response # OK
    THEN ErrorReport(command_name, "ValueError", response)
    ELSE <<>>

\* Faulty variant of ReportOfNoReply: no report for a timeout.
NoReportOfNoReply(command_name) == communication_error_report

\* The report after the read of the reply has failed (lines 705-714):
\* TimeoutError is caught and reported; with the link down the read raises
\* a connection error, which is not caught.
ReportOfNoReply(command_name) ==
    IF client = "open"
    THEN ErrorReport(command_name, "TimeoutError", UNSUPPORTED)
    ELSE communication_error_report

\* await cb(self.communication_error_report) (line 1322): the report that
\* the callback is called with.
CallbackReport(report) == report

\* What a telemetry callback was called with: the status of the LLC or the
\* error report.
CallbackWith(l, status, report) == [llc |-> l, status |-> status, report |-> report]

(***************************************************************************)
(* The end of the write_then_read_reply call of task t for cmd: the lock   *)
(* is released and the caller continues.  outcome is "ok" (data is         *)
(* returned) or "raise"; haskey says whether the data has the key of the   *)
(* polled LLC and status is the status under that key; w is the window of  *)
(* the poller at this point.                                               *)
(*  - request_llc_status (lines 1313-1336): on an exception the callback   *)
(*    gets the error report; data without the key of the LLC makes it      *)
(*    write the command again; otherwise the status is stored in           *)
(*    lower_level_status and the callback gets it;                         *)
(*    then query_status goes on with the next LLC, once the awaited        *)
(*    callback has returned: the poller stays at "callback" when it does   *)
(*    not;                                                                 *)
(*  - process_command_queue (lines 611-615) ends;                          *)
(*  - an operation of the API returns or raises.                           *)
(***************************************************************************)
Finish(t, cmd, outcome, haskey, status, w, report) ==
    /\ communication_error_report' = report
    /\ lock_holder' = Release.holder
    /\ lock_waiters' = Release.waiters
    /\ status_ahead' = [status_ahead EXCEPT ![t] = 0]
    /\ cur' = [cur EXCEPT ![t] = IF t \in OpTasks
                                 THEN [cmd EXCEPT !.id = 0] ELSE NoCommand]
    /\ IF t = Poller
       THEN LET l == LlcOfStatus(cmd.command)
                again == outcome = "ok" /\ ~haskey
            IN  /\ pc' = [pc EXCEPT ![t] = IF again THEN "retry"
                                           ELSE IF l \in blocking_callbacks
                                           THEN "callback" ELSE "iter"]
                /\ poll_pos' = IF again THEN poll_pos ELSE poll_pos + 1
                /\ window' = IF again THEN w ELSE [w EXCEPT ![l] = Called(@)]
                /\ lower_level_status' =
                       IF outcome = "ok" /\ haskey
                       THEN DictPut(lower_level_status, l, status)
                       ELSE lower_level_status
                /\ last_callback' =
                       IF again THEN last_callback
                       ELSE IF outcome = "ok"
                       THEN <<CallbackWith(l, <<status>>, <<>>)>>
                       ELSE <<CallbackWith(l, <<>>, CallbackReport(report))>>
                /\ UNCHANGED silent_failure
       ELSE IF t = Pcq
       THEN /\ pc' = [pc EXCEPT ![t] = "idle"]
            /\ silent_failure' = (silent_failure \/ outcome = "raise")
            /\ poll_pos' = poll_pos
            /\ window' = w
            /\ UNCHANGED <<lower_level_status, last_callback>>
       ELSE /\ pc' = [pc EXCEPT ![t] = IF outcome = "ok" THEN "returned" ELSE "raised"]
            /\ UNCHANGED <<silent_failure, lower_level_status, last_callback>>
            /\ poll_pos' = poll_pos
            /\ window' = w

\* The status commands written while a non-status command waits for the link.
CountStatusAhead(c) ==
    [u \in Tasks |-> IF IsStatus(c) /\ u # Poller /\ pc[u] = "lock"
                     THEN status_ahead[u] + 1 ELSE status_ahead[u]]

\* Faulty variant of ResetFlag: the flag is reset only after the check of
\* self.client.
ResetFlagWithClient(c, flag) ==
    IF ~IsStatus(c) /\ client # None THEN FALSE ELSE flag

\* if not command.startswith("status"):
\*     await self.update_status_of_non_status_command(False) (lines 689-691),
\* where flag is the value of self._has_non_status_command before.
ResetFlag(c, flag) == IF ~IsStatus(c) THEN FALSE ELSE flag

(***************************************************************************)
(* write_then_read_reply, under the lock (lines 687-704, 733-757): reset   *)
(* the flag for a non-status command, then fail without a client, answer a *)
(* disabled command locally, or write the command and wait for the reply.  *)
(***************************************************************************)
UnderLock(t, cmd, flag, w) ==
    /\ has_non_status_command' = ResetFlag(cmd.command, flag)
    /\ IF client = None
       THEN \* RuntimeError: self.client == None
            /\ Finish(t, cmd, "raise", FALSE, None, w, communication_error_report)
            /\ UNCHANGED <<link, written>>
       ELSE IF cmd.command \in DisabledCommands
       THEN \* data = REPLY_DATA_FOR_DISABLED_COMMANDS
            /\ Finish(t, cmd, "ok", FALSE, None, w, ReportOfResponse(cmd.command, OK))
            /\ UNCHANGED <<link, written>>
       ELSE IF client = "closed"
       THEN \* client.write_json raises ConnectionError
            /\ Finish(t, cmd, "raise", FALSE, None, w, communication_error_report)
            /\ UNCHANGED <<link, written>>
       ELSE /\ link' = Append(link, [id |-> cmd.id, command |-> cmd.command])
            /\ written' = written \cup {cmd.id}
            /\ cur' = [cur EXCEPT ![t] = [cmd EXCEPT !.sent = TRUE]]
            /\ pc' = [pc EXCEPT ![t] = "read"]
            /\ status_ahead' = CountStatusAhead(cmd.command)
            /\ lock_holder' = t
            /\ window' = w
            /\ UNCHANGED <<lock_waiters, poll_pos, silent_failure, reportVars>>

(***************************************************************************)
(* write_then_read_reply(command) called by task t (lines 677-687): take a *)
(* commandId, register the command and acquire the communication lock.     *)
(* With the lock free the call goes on under the lock without suspending;  *)
(* otherwise the task waits for the lock.                                  *)
(***************************************************************************)
Call(t, c, flag, w) ==
    LET cmd == [command |-> c, id |-> NextCommandId, sent |-> FALSE]
    IN  /\ index_iter <= MaxCommands
        /\ index_iter' = index_iter + 1
        /\ id_log' = Append(id_log, NextCommandId)
        /\ commands_without_reply' =
               DictPut(commands_without_reply, NextCommandId, c)
        /\ IF Acquire(t).holder = t
           THEN UnderLock(t, cmd, flag, w)
           ELSE /\ has_non_status_command' = flag
                /\ cur' = [cur EXCEPT ![t] = cmd]
                /\ pc' = [pc EXCEPT ![t] = "lock"]
                /\ lock_holder' = Acquire(t).holder
                /\ lock_waiters' = Acquire(t).waiters
                /\ window' = w
                /\ UNCHANGED <<link, written, status_ahead, poll_pos,
                               silent_failure, reportVars>>

\* The task that waited for the lock has got it.
Locked(t) ==
    /\ pc[t] = "lock"
    /\ lock_holder = t
    /\ UnderLock(t, cur[t], has_non_status_command, window)
    /\ UNCHANGED <<configVars, callVars, lifeVars, index_iter, commands_without_reply,
                   pmVars, status_command_counts, id_log>>

\* The status of an LLC in the reply to its status command: whether the
\* fans are on (AMCS) and the power that the subsystem draws.
LlcStatus(l) == [fans |-> l = "AMCS" /\ llc_power[l] > 0, powerDraw |-> llc_power[l]]

(***************************************************************************)
(* The reply of the controller to a command (mock_controller.py,           *)
(* read_and_dispatch, lines 243-305): it carries the commandId of the      *)
(* command and a response code; the OK reply to a status command carries   *)
(* the key of the LLC.                                                     *)
(***************************************************************************)
Reply(cmd, r) ==
    [commandId |-> cmd.id, response |-> r,
     llc |-> IF IsStatus(cmd.command) /\ r = OK
             THEN LlcOfStatus(cmd.command) ELSE None,
     status |-> IF IsStatus(cmd.command) /\ r = OK
                THEN LlcStatus(LlcOfStatus(cmd.command)) ELSE None]

(***************************************************************************)
(* write_then_read_reply, the reply (lines 705-757): the next JSON line of *)
(* the link is read, the reply to the oldest command not yet answered; its *)
(* commandId is removed from commands_without_reply; a response other than *)
(* OK raises ValueError.                                                   *)
(***************************************************************************)
ReadReplyWith(t, r) ==
    /\ pc[t] = "read"
    /\ client = "open"
    /\ link # <<>>
    /\ LET data == Reply(Head(link), r)
           llc == IF IsStatus(cur[t].command)
                  THEN LlcOfStatus(cur[t].command) ELSE None
       IN  /\ link' = Tail(link)
           /\ commands_without_reply' =
                  IF data.commandId \in DOMAIN commands_without_reply
                  THEN DictPop(commands_without_reply, data.commandId)
                  ELSE commands_without_reply
           /\ written' = written \ {data.commandId}
           /\ Finish(t, cur[t], IF data.response = OK THEN "ok" ELSE "raise",
                     data.llc = llc, data.status, window,
                     ReportOfResponse(cur[t].command, data.response))
    /\ UNCHANGED <<configVars, callVars, lifeVars, has_non_status_command, index_iter,
                   pmVars, status_command_counts, id_log>>

\* The reply carries one of the response codes of the model.
ReadReply(t) == \E r \in ResponseCodes : ReadReplyWith(t, r)

(***************************************************************************)
(* write_then_read_reply, no reply (lines 706-714): the read ends with     *)
(* TimeoutError after _TIMEOUT seconds, or with a connection error when    *)
(* the link is down.  The entry stays in commands_without_reply.           *)
(***************************************************************************)
ReadFails(t) ==
    /\ pc[t] = "read"
    /\ Finish(t, cur[t], "raise", FALSE, None, window,
              ReportOfNoReply(cur[t].command))
    /\ UNCHANGED <<configVars, callVars, lifeVars, has_non_status_command, index_iter,
                   commands_without_reply, pmVars, status_command_counts,
                   link, written, id_log>>

\* The controller leaves a command without reply (mock_controller.py,
\* enable_network_interruption).
ControllerDrop ==
    /\ client = "open"
    /\ link # <<>>
    /\ link' = Tail(link)
    /\ UNCHANGED <<configVars, callVars, lifeVars, lockVars, has_non_status_command,
                   index_iter, commands_without_reply, pmVars, pollVars,
                   poll_pos, pc, cur, histVars>>

\* The peer closes the connection: client.connected becomes False.
PeerClose ==
    /\ client = "open"
    /\ client' = "closed"
    /\ UNCHANGED <<configVars, callVars, mock_ctrl, run_periodic_tasks, periodic_tasks,
                   task_alive, after_disconnect, lockVars,
                   has_non_status_command, index_iter, commands_without_reply,
                   pmVars, pollVars, poll_pos, pc, cur, link, histVars>>

(***************************************************************************)
(* The operations of the API.                                              *)
(***************************************************************************)
\* update_status_of_non_status_command(True) followed by
\* write_then_read_reply(command) (for example lines 793-798, 566-567).
SendNonStatusCommand(t, c) == Call(t, c, TRUE, window)

\* move_az (lines 771-798).
MoveAz(t) ==
    /\ CanStart(t)
    /\ SendNonStatusCommand(t, "moveAz")
    /\ UNCHANGED <<configVars, callVars, lifeVars, pmVars, status_command_counts>>

(***************************************************************************)
(* exit_fault (lines 998-1069).                                            *)
(***************************************************************************)
\* SubSystemId in the order of its values; MONCS stands for the subsystems
\* that exit_fault has no case for.
SubSystemIds == <<"AMCS", "LWSCS", "APSCS", "LCS", "THCS", "MONCS">>

\* The bit masks that the model calls exit_fault with, as sets of
\* subsystems.
Masks == {m \in SUBSET {SubSystemIds[i] : i \in 1..Len(SubSystemIds)} :
             Cardinality(m) <= MaxMasked}

AMCS_NUM_MOTORS == 5
APSCS_NUM_SHUTTERS == 2
APSCS_NUM_MOTORS_PER_SHUTTER == 2

\* [1] * n
Ones(n) == [i \in 1..n |-> 1]

FaultCommand(c, reset) == [command |-> c, reset |-> reset]

\* exit_fault_az (lines 1024-1036).
exit_fault_az ==
    <<FaultCommand("resetDrivesAz", Ones(AMCS_NUM_MOTORS)),
      FaultCommand("exitFaultAz", <<>>)>>

\* exit_fault_shutter (lines 1038-1051).
exit_fault_shutter ==
    <<FaultCommand("resetDrivesShutter",
                   Ones(APSCS_NUM_SHUTTERS * APSCS_NUM_MOTORS_PER_SHUTTER)),
      FaultCommand("exitFaultShutter", <<>>)>>

\* exit_fault_louvers, exit_fault_el, exit_fault_thermal (lines 1053-1069).
exit_fault_louvers == <<FaultCommand("exitFaultLouvers", <<>>)>>
exit_fault_el == <<FaultCommand("exitFaultEl", <<>>)>>
exit_fault_thermal == <<FaultCommand("exitFaultThermal", <<>>)>>

\* The match statement of exit_fault (lines 1008-1022).
ExitFaultCase(sub_system_id) ==
    IF sub_system_id = "AMCS" THEN exit_fault_az
    ELSE IF sub_system_id = "APSCS" THEN exit_fault_shutter
    ELSE IF sub_system_id = "LCS" THEN exit_fault_louvers
    ELSE IF sub_system_id = "LWSCS" THEN exit_fault_el
    ELSE IF sub_system_id = "THCS" THEN exit_fault_thermal
    ELSE <<>>

\* The commands of exit_fault(sub_system_ids) in the order of the loop
\* over SubSystemId (lines 1006-1007), from position i on.
RECURSIVE ExitFaultCommands(_, _)
ExitFaultCommands(sub_system_ids, i) ==
    IF i > Len(SubSystemIds) THEN <<>>
    ELSE (IF SubSystemIds[i] \in sub_system_ids
          THEN ExitFaultCase(SubSystemIds[i]) ELSE <<>>)
         \o ExitFaultCommands(sub_system_ids, i + 1)

NoRun == [mask |-> {}, done |-> <<>>, current |-> <<>>, todo |-> <<>>]

\* Faulty variant of GoesOn: the next command is sent after a failure too.
GoesOnAnyway(t) == pc[t] \in {"returned", "raised"}

\* The statement after a write_then_read_reply call is reached when the
\* call has returned.
GoesOn(t) == pc[t] = "returned"

\* exit_fault(sub_system_ids) called by task t: the first command is handed
\* to write_then_read_reply; without any command the call returns.
ExitFault(t, sub_system_ids) ==
    LET plan == ExitFaultCommands(sub_system_ids, 1)
    IN  /\ CanStart(t)
        /\ exit_fault_run.todo = <<>> \/ pc[t] # "returned"
        /\ IF plan = <<>>
           THEN /\ pc' = [pc EXCEPT ![t] = "returned"]
                /\ cur' = [cur EXCEPT ![t] = NoCommand]
                /\ exit_fault_run' = [NoRun EXCEPT !.mask = sub_system_ids]
                /\ UNCHANGED <<has_non_status_command, index_iter, id_log,
                               commands_without_reply, lockVars, window,
                               poll_pos, link, written, status_ahead,
                               silent_failure, reportVars>>
           ELSE /\ SendNonStatusCommand(t, Head(plan).command)
                /\ exit_fault_run' = [mask |-> sub_system_ids, done |-> <<>>,
                                      current |-> <<Head(plan)>>,
                                      todo |-> Tail(plan)]
        /\ UNCHANGED <<configVars, pm_call, plantVars, lifeVars, pmVars,
                       status_command_counts>>

\* exit_fault goes on with its next command after the call for the
\* previous one has ended.
ExitFaultNext(t) ==
    /\ exit_fault_run.todo # <<>>
    /\ exit_fault_run.current # <<>>
    /\ GoesOn(t)
    /\ SendNonStatusCommand(t, Head(exit_fault_run.todo).command)
    /\ exit_fault_run' =
           [exit_fault_run EXCEPT
               !.done = Append(@, [command |-> exit_fault_run.current[1],
                                   outcome |-> pc[t]]),
               !.current = <<Head(exit_fault_run.todo)>>,
               !.todo = Tail(@)]
    /\ UNCHANGED <<configVars, pm_call, plantVars, lifeVars, pmVars,
                   status_command_counts>>

(***************************************************************************)
(* power_management: the power figures, in units of power, the priority    *)
(* of a command and the stop commands that go with it in each mode.        *)
(***************************************************************************)
CONTINUOUS_SLIP_RING_POWER_CAPACITY == 12
CONTINUOUS_ELECTRONICS_POWER_DRAW == 1
FANS_POWER_DRAW == 3
LWS_POWER_DRAW == 7
LOUVERS_POWER_DRAW == 7
APS_POWER_DRAW == 1

\* The subsystems whose power draw the model follows.
PowerLlcs == {"AMCS", "LCS", "LWSCS"}

\* ScheduledCommand(command, params); params is "{}" for no parameters.
ScheduledCommand(c, p) == [command |-> c, params |-> p]
NoParams == "{}"

\* StopCommand(scheduled_command, llc_name): STOP_EL and STOP_LOUVERS.
STOP_EL ==
    [scheduled_command |-> ScheduledCommand("stopEl", NoParams), llc_name |-> "LWSCS"]

STOP_LOUVERS ==
    [scheduled_command |-> ScheduledCommand("stopLouvers", NoParams), llc_name |-> "LCS"]

StopCommandNames == {"stopEl", "stopLouvers"}

\* CommandName is a StrEnum: its members compare as their strings do.
CommandNameOrder ==
    <<"closeShutter", "fans", "moveEl", "openShutter", "stopEl", "stopLouvers">>

NameIndex(c) == CHOOSE i \in 1..Len(CommandNameOrder) : CommandNameOrder[i] = c

\* a < b for two entries (priority, ScheduledCommand) of the queue: the
\* tuples compare by priority, then ScheduledCommand (order=True) compares
\* by command and then by params, and two different dicts do not compare.
Compare(a, b) ==
    IF a.priority # b.priority
    THEN IF a.priority < b.priority THEN "lt" ELSE "ge"
    ELSE IF a.scheduled_command.command # b.scheduled_command.command
    THEN IF NameIndex(a.scheduled_command.command)
              < NameIndex(b.scheduled_command.command) THEN "lt" ELSE "ge"
    ELSE IF a.scheduled_command.params # b.scheduled_command.params
    THEN "TypeError"
    ELSE "ge"

(***************************************************************************)
(* asyncio.PriorityQueue: heapq on a list, positions counted from 1.  A    *)
(* comparison that raises leaves the list as it is at that moment.         *)
(***************************************************************************)
Swap(heap, i, j) == [heap EXCEPT ![i] = heap[j], ![j] = heap[i]]

RECURSIVE siftdown(_, _, _)
siftdown(heap, startpos, pos) ==
    IF pos <= startpos
    THEN [heap |-> heap, error |-> FALSE]
    ELSE LET parentpos == pos \div 2
             cmp == Compare(heap[pos], heap[parentpos])
         IN  IF cmp = "TypeError" THEN [heap |-> heap, error |-> TRUE]
             ELSE IF cmp = "ge" THEN [heap |-> heap, error |-> FALSE]
             ELSE siftdown(Swap(heap, pos, parentpos), startpos, parentpos)

RECURSIVE siftup(_, _, _)
siftup(heap, startpos, pos) ==
    IF pos <= Len(heap) \div 2
    THEN LET left == 2 * pos
             right == 2 * pos + 1
             cmp == IF right <= Len(heap)
                    THEN Compare(heap[left], heap[right])
                    ELSE "lt"
         IN  IF cmp = "TypeError" THEN [heap |-> heap, error |-> TRUE]
             ELSE LET childpos == IF cmp = "lt" THEN left ELSE right
                  IN  siftup(Swap(heap, pos, childpos), startpos, childpos)
    ELSE siftdown(heap, startpos, pos)

heappush(heap, item) == siftdown(Append(heap, item), 1, Len(heap) + 1)

heappop(heap) ==
    LET last == heap[Len(heap)]
        rest == SubSeq(heap, 1, Len(heap) - 1)
    IN  IF rest = <<>>
        THEN [item |-> last, heap |-> rest, error |-> FALSE]
        ELSE LET r == siftup([rest EXCEPT ![1] = last], 1, 1)
             IN  [item |-> heap[1], heap |-> r.heap, error |-> r.error]

RECURSIVE PutAll(_, _)
PutAll(heap, items) ==
    IF items = <<>>
    THEN [heap |-> heap, error |-> FALSE]
    ELSE LET r == heappush(heap, Head(items))
         IN  IF r.error THEN r ELSE PutAll(r.heap, Tail(items))

\* command_priorities: a lower number leaves the queue first.
STOP_PRIORITY == 0
HIGH_PRIORITY == 1
DEFAULT_PRIORITY == 2

command_priorities(mode, c) ==
    IF c \in StopCommandNames THEN STOP_PRIORITY
    ELSE IF mode = EMERGENCY /\ c = "closeShutter" THEN HIGH_PRIORITY
    ELSE DEFAULT_PRIORITY

\* The stop commands that go with a command in a mode.
stop_companions(mode, c) ==
    IF mode = OPERATIONS /\ c \in {"openShutter", "closeShutter"}
    THEN <<STOP_EL, STOP_LOUVERS>>
    ELSE IF mode = EMERGENCY /\ c = "closeShutter"
    THEN <<STOP_EL>>
    ELSE <<>>

\* The power that a command is expected to draw.
PowerRequired(sc) ==
    IF sc.command = "fans"
    THEN IF sc.params = "ON" THEN FANS_POWER_DRAW ELSE 0
    ELSE IF sc.command \in {"openShutter", "closeShutter"} THEN APS_POWER_DRAW
    ELSE IF sc.command = "moveEl" THEN LWS_POWER_DRAW
    ELSE 0

\* current_power_draw[llc_name], 0 for a subsystem without an entry.
Draw(draw, l) == IF l \in DOMAIN draw THEN draw[l] ELSE 0

RECURSIVE SumDraw(_, _)
SumDraw(draw, llcs) ==
    IF llcs = {} THEN 0
    ELSE LET l == CHOOSE x \in llcs : TRUE
         IN  draw[l] + SumDraw(draw, llcs \ {l})

\* power_available (lines 600-605).
PowerAvailable(draw) ==
    CONTINUOUS_SLIP_RING_POWER_CAPACITY
        - CONTINUOUS_ELECTRONICS_POWER_DRAW
        - SumDraw(draw, DOMAIN draw)

QueueEntry(mode, sc) ==
    [priority |-> command_priorities(mode, sc.command), scheduled_command |-> sc]

\* PowerManagementHandler.schedule_command: the command joins the queue
\* with the priority it has in the mode of the handler.
schedule_command(queue, mode, sc) == heappush(queue, QueueEntry(mode, sc))

(***************************************************************************)
(* PowerManagementHandler.get_next_command: the first entry of the queue   *)
(* is taken out.  Without power management, and for a stop command, it is  *)
(* handed out.  openShutter is never admitted in Emergency and Maintenance *)
(* mode.  A command whose stop companions belong to subsystems that draw   *)
(* power, or whose expected draw exceeds the power available, goes back    *)
(* into the queue behind the stop commands of those subsystems, and        *)
(* nothing is handed out.  command and head of the result are sequences    *)
(* of at most one element: the command handed out and the entry taken.     *)
(***************************************************************************)
get_next_command(queue, mode, draw) ==
    IF queue = <<>>
    THEN [command |-> <<>>, head |-> <<>>, queue |-> queue, put |-> <<>>,
          error |-> FALSE]
    ELSE LET p == heappop(queue)
             sc == p.item.scheduled_command
             stops == SelectSeq(stop_companions(mode, sc.command),
                                LAMBDA s : Draw(draw, s.llc_name) > 0)
             back == [i \in 1..Len(stops) |->
                         QueueEntry(mode, stops[i].scheduled_command)]
                     \o <<p.item>>
             r == PutAll(p.heap, back)
         IN  IF p.error
             THEN [command |-> <<>>, head |-> <<p.item>>, queue |-> p.heap,
                   put |-> <<>>, error |-> TRUE]
             ELSE IF mode = NO_POWER_MANAGEMENT \/ sc.command \in StopCommandNames
             THEN [command |-> <<sc>>, head |-> <<p.item>>, queue |-> p.heap,
                   put |-> <<>>, error |-> FALSE]
             ELSE IF mode \in {EMERGENCY, MAINTENANCE} /\ sc.command = "openShutter"
             THEN [command |-> <<>>, head |-> <<p.item>>, queue |-> p.heap,
                   put |-> <<>>, error |-> FALSE]
             ELSE IF stops # <<>> \/ PowerRequired(sc) > PowerAvailable(draw)
             THEN [command |-> <<>>, head |-> <<p.item>>, queue |-> r.heap,
                   put |-> back, error |-> r.error]
             ELSE [command |-> <<sc>>, head |-> <<p.item>>, queue |-> p.heap,
                   put |-> <<>>, error |-> FALSE]

\* schedule_order after an entry was taken out of the queue.
RECURSIVE Without(_, _)
Without(order, e) ==
    IF order = <<>> THEN order
    ELSE IF Head(order) = e THEN Tail(order)
    ELSE <<Head(order)>> \o Without(Tail(order), e)

\* schedule_order after get_next_command returned next: an entry that went
\* back into the queue keeps its place, the stop commands are new.
OrderAfter(order, next) ==
    IF next.head = <<>> THEN order
    ELSE IF next.put = <<>> THEN Without(order, next.head[1])
    ELSE order \o SubSeq(next.put, 1, Len(next.put) - 1)

\* Faulty variant of SendsAtOnce: every command is scheduled.
NeverSendsAtOnce == FALSE

\* if self.power_management_mode == NO_POWER_MANAGEMENT (line 565).
SendsAtOnce == power_management_mode = NO_POWER_MANAGEMENT

(***************************************************************************)
(* _schedule_command_if_power_management_active (lines 548-570), called by *)
(* move_el, crawl_el, set_louvers, close_louvers, open_shutter,            *)
(* close_shutter, home and fans.  An exception of schedule_command reaches *)
(* the caller.                                                             *)
(***************************************************************************)
ScheduleCommandIfPowerManagementActive(t, c) ==
    /\ CanStart(t)
    /\ IF SendsAtOnce
       THEN /\ SendNonStatusCommand(t, c)
            /\ UNCHANGED <<command_queue, schedule_order>>
       ELSE /\ Len(command_queue) < MaxQueue
            /\ \E p \in ParamsOfCall(c) :
                  LET sc == ScheduledCommand(c, p)
                      r == schedule_command(command_queue, handler_mode, sc)
                  IN  /\ command_queue' = r.heap
                      /\ schedule_order' =
                            Append(schedule_order, QueueEntry(handler_mode, sc))
                      /\ pc' = [pc EXCEPT ![t] =
                                   IF r.error THEN "raised" ELSE "returned"]
            /\ cur' = [cur EXCEPT ![t] = [command |-> c, id |-> 0, sent |-> FALSE]]
            /\ UNCHANGED <<has_non_status_command, index_iter, id_log,
                           commands_without_reply, lockVars, window,
                           poll_pos, link, written, status_ahead,
                           silent_failure, reportVars>>
    /\ UNCHANGED <<configVars, callVars, lifeVars, power_management_mode,
                   handler_mode, status_command_counts>>

\* Faulty variant of KeepsMode: only a request for the current mode is
\* ignored.
KeepsCurrentModeOnly(m) == m = power_management_mode

\* The requests that set_power_management_mode ignores (lines 1240-1247).
KeepsMode(m) == m = NO_POWER_MANAGEMENT \/ m = power_management_mode

(***************************************************************************)
(* set_power_management_mode (lines 1231-1255).                            *)
(***************************************************************************)
SetPowerManagementMode(m) ==
    /\ IF KeepsMode(m)
       THEN UNCHANGED <<command_queue, schedule_order, power_management_mode,
                        silent_failure>>
       ELSE /\ command_queue' = <<>>
            /\ schedule_order' = <<>>
            /\ power_management_mode' = m
            /\ silent_failure' = (silent_failure \/ command_queue # <<>>)
    /\ UNCHANGED <<configVars, callVars, lifeVars, lockVars,
                   has_non_status_command, index_iter, commands_without_reply,
                   handler_mode, pollVars, poll_pos, pc, cur, link, written,
                   id_log, status_ahead>>

(***************************************************************************)
(* _get_current_power_draw_for_llcs (lines 617-643): the fans for AMCS,    *)
(* powerDraw for the other subsystems with a stored status.                *)
(***************************************************************************)
GetCurrentPowerDrawForLlcs ==
    [l \in DOMAIN lower_level_status |->
        IF l = "AMCS"
        THEN IF lower_level_status[l].fans THEN FANS_POWER_DRAW ELSE 0
        ELSE lower_level_status[l].powerDraw]

(***************************************************************************)
(* process_command_queue (lines 585-615), run every _COMMAND_QUEUE_PERIOD  *)
(* by its periodic task; it does nothing without power management, and an *)
(* exception of get_next_command ends the run without a caller.            *)
(***************************************************************************)
ProcessCommandQueue ==
    /\ "process_command_queue" \in task_alive
    /\ run_periodic_tasks
    /\ pc[Pcq] = "idle"
    /\ power_management_mode # NO_POWER_MANAGEMENT
    /\ LET next == get_next_command(command_queue, handler_mode,
                                    GetCurrentPowerDrawForLlcs)
       IN  /\ next.head # <<>>
           /\ command_queue' = next.queue
           /\ schedule_order' = OrderAfter(schedule_order, next)
           /\ IF next.command # <<>>
              THEN SendNonStatusCommand(Pcq, next.command[1].command)
              ELSE /\ silent_failure' = (silent_failure \/ next.error)
                   /\ UNCHANGED <<has_non_status_command, index_iter, id_log,
                                  commands_without_reply, lockVars, window,
                                  poll_pos, link, written, status_ahead, pc,
                                  cur, reportVars>>
    /\ UNCHANGED <<configVars, callVars, lifeVars, power_management_mode,
                   handler_mode, status_command_counts>>

(***************************************************************************)
(* The handler called on its own, as its unit tests do: the mode is        *)
(* assigned to power_management_mode, schedule_command and                 *)
(* get_next_command are called with any current power draw.                *)
(***************************************************************************)
NoCall == [op |-> None, mode |-> None, draw |-> <<>>, order |-> <<>>,
           head |-> <<>>, command |-> <<>>, error |-> FALSE]

HandlerCommands ==
    {ScheduledCommand("closeShutter", NoParams),
     ScheduledCommand("openShutter", NoParams),
     ScheduledCommand("fans", "ON"),
     ScheduledCommand("moveEl", "1"),
     ScheduledCommand("moveEl", "2"),
     ScheduledCommand("stopEl", NoParams)}

PowerDraws ==
    {d \in [PowerLlcs -> {0, FANS_POWER_DRAW, LOUVERS_POWER_DRAW, LWS_POWER_DRAW}] :
        /\ d["AMCS"] \in {0, FANS_POWER_DRAW}
        /\ d["LCS"] \in {0, LOUVERS_POWER_DRAW}
        /\ d["LWSCS"] \in {0, LWS_POWER_DRAW}}

bridgeVars == <<configVars, lifeVars, lockVars, pollVars, histVars,
                has_non_status_command, index_iter, commands_without_reply,
                power_management_mode, pc, cur, poll_pos, link, exit_fault_run>>

SetHandlerMode(m) ==
    /\ m # handler_mode
    /\ command_queue = <<>>
    /\ handler_mode' = m
    /\ UNCHANGED <<bridgeVars, plantVars, command_queue, schedule_order, pm_call>>

HandlerScheduleCommand(sc) ==
    /\ Len(command_queue) < MaxHandlerQueue
    /\ LET r == schedule_command(command_queue, handler_mode, sc)
       IN  /\ command_queue' = r.heap
           /\ schedule_order' = Append(schedule_order, QueueEntry(handler_mode, sc))
           /\ pm_call' = [op |-> "schedule_command", mode |-> handler_mode,
                          draw |-> <<>>, order |-> schedule_order,
                          head |-> <<QueueEntry(handler_mode, sc)>>,
                          command |-> <<>>, error |-> r.error]
    /\ UNCHANGED <<bridgeVars, plantVars, handler_mode>>

HandlerGetNextCommand(draw) ==
    LET next == get_next_command(command_queue, handler_mode, draw)
    IN  /\ command_queue' = next.queue
        /\ schedule_order' = OrderAfter(schedule_order, next)
        /\ pm_call' = [op |-> "get_next_command", mode |-> handler_mode,
                       draw |-> draw, order |-> schedule_order,
                       head |-> next.head, command |-> next.command,
                       error |-> next.error]
        /\ UNCHANGED <<bridgeVars, plantVars, handler_mode>>

(***************************************************************************)
(* The mock lower level components with drives: LcsStatus (mock_llc/       *)
(* lcs.py), and AmcsStatus and ApscsStatus as the specification and their  *)
(* unit tests describe them.  One of them is exercised at a time, by       *)
(* direct calls of its methods with the time of the mock controller.       *)
(***************************************************************************)
DriveLlcs == {"AMCS", "APSCS", "LCS"}

LCS_NUM_LOUVERS == 34
LCS_NUM_MOTORS_PER_LOUVER == 2
\* LCS_MOTION_VELOCITY = 100 / 30, as a fraction.
LCS_MOTION_VELOCITY_NUM == 100
LCS_MOTION_VELOCITY_DEN == 30

Louvers == 0..(LCS_NUM_LOUVERS - 1)
LouverMotors == 0..(LCS_NUM_MOTORS_PER_LOUVER - 1)
AmcsMotors == 0..(AMCS_NUM_MOTORS - 1)
Shutters == 0..(APSCS_NUM_SHUTTERS - 1)
ShutterMotors == 0..(APSCS_NUM_MOTORS_PER_SHUTTER - 1)

\* The mock controller's clock moves in steps of TaiStep seconds up to
\* MaxTai.
TaiStep == 15
MaxTai == 15
\* The step of the clock while a motion is followed.
MoveStep == 3
MaxDispatchId == 2

\* MotionState and InternalMotionState names.
STATIONARY == "STATIONARY"
ERROR == "ERROR"
MOVING == "MOVING"
CRAWLING == "CRAWLING"
STOPPING == "STOPPING"
STOPPED == "STOPPED"
OPENING == "OPENING"
CLOSING == "CLOSING"
ENABLING_MOTOR_POWER == "ENABLING_MOTOR_POWER"
MOTOR_POWER_ON == "MOTOR_POWER_ON"
GO_NORMAL == "GO_NORMAL"
DISENGAGING_BRAKES == "DISENGAGING_BRAKES"
BRAKES_DISENGAGED == "BRAKES_DISENGAGED"
ENGAGING_BRAKES == "ENGAGING_BRAKES"
BRAKES_ENGAGED == "BRAKES_ENGAGED"
GO_STATIONARY == "GO_STATIONARY"
DISABLING_MOTOR_POWER == "DISABLING_MOTOR_POWER"
MOTOR_POWER_OFF == "MOTOR_POWER_OFF"
PROXIMITY_OPEN_LS_ENGAGED == "PROXIMITY_OPEN_LS_ENGAGED"
PROXIMITY_CLOSED_LS_ENGAGED == "PROXIMITY_CLOSED_LS_ENGAGED"

DEFAULT_MESSAGES == "No Errors"
FAULT_MESSAGES == "Motors in error state."

\* A list of n zeros with ones at the (0-based) indices in S.
OnesAt(n, S) == [i \in 0..(n - 1) |-> IF i \in S THEN 1 ELSE 0]

Abs(x) == IF x < 0 THEN -x ELSE x
MaxOf(S) == CHOOSE x \in S : \A y \in S : y <= x

(***************************************************************************)
(* LcsStatus (lcs.py).                                                     *)
(***************************************************************************)
\* LcsStatus.__init__ (lines 49-91).  drives_in_error_state is a list of
\* LCS_NUM_LOUVERS references to one and the same inner list (lines 89-91):
\* the model keeps that inner list, and the flag of motor i of every louver
\* is its entry i.
LcsInit ==
    [messages |-> DEFAULT_MESSAGES,
     start_position |-> [l \in Louvers |-> 0],
     position_actual |-> [l \in Louvers |-> 0],
     position_commanded |-> [l \in Louvers |-> 0],
     power_draw |-> 0,
     drive_current_actual |-> [l \in Louvers |-> 0],
     current_state |-> [l \in Louvers |-> STATIONARY],
     start_state |-> [l \in Louvers |-> STATIONARY],
     target_state |-> [l \in Louvers |-> STATIONARY],
     drives_in_error_state |-> [i \in LouverMotors |-> FALSE],
     command_time_tai |-> 0]

\* self.drives_in_error_state[louver_id][i]
LcsDriveFlag(s, louver_id, i) == s.drives_in_error_state[i]

\* _handle_moving (lines 159-177): has the louver reached its commanded
\* position (time_frac >= 1.0)?
lcs_time_frac_ge_1(s, tai, louver_id) ==
    LET distance == Abs(s.position_commanded[louver_id]
                        - s.start_position[louver_id])
        time_so_far == tai - s.command_time_tai
    IN  \/ distance = 0
        \/ time_so_far * LCS_MOTION_VELOCITY_NUM
               >= distance * LCS_MOTION_VELOCITY_DEN

\* _handle_moving (lines 159-177): position_actual of the louver.
lcs_moving_position(s, tai, louver_id) ==
    LET distance == s.position_commanded[louver_id]
                    - s.start_position[louver_id]
        time_so_far == tai - s.command_time_tai
        moved == (time_so_far * LCS_MOTION_VELOCITY_NUM)
                     \div LCS_MOTION_VELOCITY_DEN
    IN  IF lcs_time_frac_ge_1(s, tai, louver_id)
        THEN s.position_commanded[louver_id]
        ELSE s.start_position[louver_id]
                 + (IF distance < 0 THEN -moved ELSE moved)

\* The louver's states and position, as evaluate_state changes them.
LouverOf(s, l) ==
    [current_state |-> s.current_state[l], start_state |-> s.start_state[l],
     target_state |-> s.target_state[l],
     position_actual |-> s.position_actual[l]]

\* _handle_stationary (lines 120-157) for one louver.
lcs_handle_stationary(s, tai, l) ==
    LET v == LouverOf(s, l)
        c == v.current_state
        To(x) == [v EXCEPT !.current_state = x]
    IN  IF c = STATIONARY
        THEN IF v.start_state \in {OPENING, CLOSING}
             THEN To(ENABLING_MOTOR_POWER) ELSE v
        ELSE IF c = ENABLING_MOTOR_POWER THEN To(MOTOR_POWER_ON)
        ELSE IF c = MOTOR_POWER_ON THEN To(GO_NORMAL)
        ELSE IF c = GO_NORMAL THEN To(DISENGAGING_BRAKES)
        ELSE IF c = DISENGAGING_BRAKES THEN To(BRAKES_DISENGAGED)
        ELSE IF c = BRAKES_DISENGAGED THEN To(MOVING)
        ELSE IF c = MOVING
        THEN [v EXCEPT
                 !.position_actual = lcs_moving_position(s, tai, l),
                 !.current_state =
                     IF lcs_time_frac_ge_1(s, tai, l)
                     THEN STOPPING ELSE @]
        ELSE IF c = STOPPING THEN To(STOPPED)
        \* _handle_stopped (lines 114-118) with target_state STATIONARY
        ELSE IF c = STOPPED THEN To(ENGAGING_BRAKES)
        ELSE IF c = ENGAGING_BRAKES THEN To(BRAKES_ENGAGED)
        ELSE IF c = BRAKES_ENGAGED THEN To(GO_STATIONARY)
        ELSE IF c = GO_STATIONARY THEN To(DISABLING_MOTOR_POWER)
        ELSE IF c = DISABLING_MOTOR_POWER THEN To(MOTOR_POWER_OFF)
        ELSE IF c = MOTOR_POWER_OFF
        THEN [v EXCEPT !.current_state = STATIONARY,
                       !.start_state = STATIONARY,
                       !.target_state = STATIONARY]
        ELSE v

\* evaluate_state (lines 93-112) for one louver.  With target_state
\* STOPPED, _handle_stopped finds that the target is not STATIONARY and
\* changes nothing; any other target state is not handled.
lcs_evaluate_state(s, tai, l) ==
    IF s.target_state[l] = STATIONARY
    THEN lcs_handle_stationary(s, tai, l)
    ELSE LouverOf(s, l)

\* constants.py, line 28, and lines 73-75: the current of one motor of a
\* moving louver, in millionths of a unit of power per volt.
DOME_VOLTAGE == 220
LCS_CURRENT_PER_MOTOR ==
    (LOUVERS_POWER_DRAW * 1000000)
        \div (LCS_NUM_LOUVERS * DOME_VOLTAGE * LCS_NUM_MOTORS_PER_LOUVER)

\* determine_status (lines 179-223): every louver is evaluated in turn;
\* the current of its two motors and power_draw are assigned for every
\* louver from its state before the evaluation, so that of power_draw the
\* value of the last louver remains.  drive_current_actual[l] is the
\* current of either motor of louver l.
lcs_determine_status(s, tai) ==
    LET e == [l \in Louvers |-> lcs_evaluate_state(s, tai, l)]
        last == LCS_NUM_LOUVERS - 1
    IN  [s EXCEPT
            !.current_state = [l \in Louvers |-> e[l].current_state],
            !.start_state = [l \in Louvers |-> e[l].start_state],
            !.target_state = [l \in Louvers |-> e[l].target_state],
            !.position_actual = [l \in Louvers |-> e[l].position_actual],
            !.drive_current_actual = [l \in Louvers |->
                IF s.current_state[l] = MOVING
                THEN LCS_CURRENT_PER_MOTOR ELSE 0],
            !.power_draw = IF s.current_state[last] = MOVING
                           THEN LOUVERS_POWER_DRAW ELSE 0]

\* stopLouvers (lines 265-275).
lcs_stopLouvers(s, tai) ==
    [s EXCEPT !.command_time_tai = tai,
              !.start_state = [l \in Louvers |-> STOPPING],
              !.target_state = [l \in Louvers |-> STOPPED]]

\* go_stationary (lines 277-286).
lcs_go_stationary(s, tai) ==
    [s EXCEPT !.command_time_tai = tai,
              !.target_state = [l \in Louvers |-> STATIONARY]]

\* Faulty variant of lcs_setLouvers: a position below 0 is commanded like
\* any other.
lcs_setLouvers_unchecked(s, position, tai) ==
    LET moves(l) == /\ position[l] <= 100
                    /\ s.position_actual[l] # position[l]
    IN  [s EXCEPT
            !.command_time_tai = tai,
            !.start_state = [l \in Louvers |->
                IF moves(l)
                THEN (IF position[l] > 0 THEN OPENING ELSE CLOSING)
                ELSE @[l]],
            !.target_state = [l \in Louvers |->
                IF moves(l) THEN STATIONARY ELSE @[l]],
            !.start_position =
                IF \E l \in Louvers : moves(l)
                THEN s.position_actual ELSE @,
            !.position_commanded = [l \in Louvers |->
                IF moves(l) THEN position[l] ELSE @[l]]]

\* setLouvers (lines 225-248).
lcs_setLouvers(s, position, tai) ==
    LET moves(l) == /\ 0 <= position[l] /\ position[l] <= 100
                    /\ s.position_actual[l] # position[l]
    IN  [s EXCEPT
            !.command_time_tai = tai,
            !.start_state = [l \in Louvers |->
                IF moves(l)
                THEN (IF position[l] > 0 THEN OPENING ELSE CLOSING)
                ELSE @[l]],
            !.target_state = [l \in Louvers |->
                IF moves(l) THEN STATIONARY ELSE @[l]],
            !.start_position =
                IF \E l \in Louvers : moves(l)
                THEN s.position_actual ELSE @,
            !.position_commanded = [l \in Louvers |->
                IF moves(l) THEN position[l] ELSE @[l]]]

\* Faulty variant of lcs_drives_in_fault: the drives are never looked at.
lcs_no_drive_in_fault(s) == FALSE

\* exit_fault (lines 303-307): any(self.drives_in_error_state[louver_id])
\* for some louver.
lcs_drives_in_fault(s) ==
    \E louver_id \in Louvers : \E i \in LouverMotors :
        LcsDriveFlag(s, louver_id, i)

\* exit_fault (lines 288-310).
lcs_exit_fault(s, tai) ==
    IF lcs_drives_in_fault(s)
    THEN [raised |-> TRUE, llc |-> s]
    ELSE [raised |-> FALSE,
          llc |-> [s EXCEPT
                      !.command_time_tai = tai,
                      !.start_state = [l \in Louvers |-> GO_STATIONARY],
                      !.target_state = [l \in Louvers |-> STATIONARY],
                      !.messages = DEFAULT_MESSAGES]]

\* The (0-based) indices that the slice
\* [louvers_id * LCS_NUM_LOUVERS : louvers_id * LCS_NUM_LOUVERS
\*  + LCS_NUM_MOTORS_PER_LOUVER] of a list of length n holds of motor i
\* (lines 343-348 and 388-393): the louvers whose slice reaches entry i.
LouversWithSlice(n, i) ==
    {louvers_id \in Louvers : louvers_id * LCS_NUM_LOUVERS + i < n}

ListLen(list) == Cardinality(DOMAIN list)

\* reset_drives_louvers (lines 312-355).
lcs_reset_drives_louvers(s, reset) ==
    IF ListLen(reset) # LCS_NUM_LOUVERS * LCS_NUM_MOTORS_PER_LOUVER
    THEN [raised |-> TRUE, llc |-> s]
    ELSE [raised |-> FALSE,
          llc |-> [s EXCEPT !.drives_in_error_state =
              [i \in LouverMotors |->
                  IF \E louvers_id \in LouversWithSlice(ListLen(reset), i) :
                         reset[louvers_id * LCS_NUM_LOUVERS + i] = 1
                  THEN FALSE ELSE @[i]]]]

\* Faulty variant of lcs_fault_state: the state is left as it is.
lcs_keeps_state(s, l) == s.current_state[l]

\* set_fault (lines 397-399): the state that the louver is forced to.
lcs_fault_state(s, l) == ERROR

\* set_fault (lines 357-400): for every louver in turn _handle_moving, the
\* flags of its slice assigned to the shared inner list (the last
\* assignment to an entry remains), and the states set to ERROR.
lcs_set_fault(s, start_tai, drives_in_error) ==
    IF ListLen(drives_in_error) # LCS_NUM_LOUVERS * LCS_NUM_MOTORS_PER_LOUVER
    THEN [raised |-> TRUE, llc |-> s]
    ELSE [raised |-> FALSE,
          llc |-> [s EXCEPT
              !.position_actual = [l \in Louvers |->
                  lcs_moving_position(s, start_tai, l)],
              !.drives_in_error_state = [i \in LouverMotors |->
                  LET ls == LouversWithSlice(ListLen(drives_in_error), i)
                  IN  IF ls = {} THEN @[i]
                      ELSE drives_in_error[MaxOf(ls) * LCS_NUM_LOUVERS + i]
                               = 1],
              !.start_state = [l \in Louvers |-> lcs_fault_state(s, l)],
              !.current_state = [l \in Louvers |-> lcs_fault_state(s, l)],
              !.target_state = [l \in Louvers |-> lcs_fault_state(s, l)],
              !.messages = FAULT_MESSAGES]]

(***************************************************************************)
(* AmcsStatus, from the specification (4.2.1) and test_amcs.py.  Angles    *)
(* are in microradians, velocities in microradians per second.  The        *)
(* motion profile is reduced to a constant velocity vmax on the shorter    *)
(* way round, as in the expected states of test_amcs.py (lines 177-241),   *)
(* and the states around Moving to Stopped and Stationary.                 *)
(***************************************************************************)
AmcsInit ==
    [current_state |-> STATIONARY, position_actual |-> 0,
     position_commanded |-> 0, command_time_tai |-> 0,
     start_position |-> 0, crawl_velocity |-> 0, velocity_actual |-> 0,
     drives_in_error_state |-> [i \in AmcsMotors |-> FALSE]]

amcs_drives_in_fault(s) == \E i \in AmcsMotors : s.drives_in_error_state[i]

\* The full circle.
AzTurn == 360 * 17453

\* The way from start to target, positive or negative, the shorter way
\* round.
AzDistance(start, target) ==
    LET d == (target - start) % AzTurn
    IN  IF 2 * d > AzTurn THEN d - AzTurn ELSE d

\* The maximum velocity of the dome: AMCS_VMAX = math.radians(1.5)
\* (constants.py, line 46).
amcs_vmax == (1500 * 17453) \div 1000

\* moveAz(position, velocity, start_tai): refused in ERROR (bad state).
amcs_moveAz(s, position, velocity, tai) ==
    IF s.current_state = ERROR
    THEN [raised |-> TRUE, llc |-> s]
    ELSE [raised |-> FALSE,
          llc |-> [s EXCEPT !.position_commanded = position,
                            !.crawl_velocity = velocity,
                            !.start_position = s.position_actual,
                            !.command_time_tai = tai,
                            !.current_state =
                                IF position # s.position_actual \/ velocity # 0
                                THEN MOVING ELSE @]]

\* Faulty variant of amcs_arrived: the dome stops at its target whatever
\* the velocity to crawl with.
amcs_arrived_stops(s, past) ==
    [s EXCEPT !.position_actual = s.position_commanded,
              !.velocity_actual = 0,
              !.current_state = STOPPED]

\* The dome has been at its target for the time past / vmax: it has
\* stopped there, or it has gone on with the velocity to crawl with.
amcs_arrived(s, past) ==
    IF s.crawl_velocity = 0
    THEN [s EXCEPT !.position_actual = s.position_commanded,
                   !.velocity_actual = 0,
                   !.current_state = STOPPED]
    ELSE [s EXCEPT !.position_actual =
                       (s.position_commanded
                            + (s.crawl_velocity * past) \div amcs_vmax) % AzTurn,
                   !.velocity_actual = s.crawl_velocity,
                   !.current_state = CRAWLING]

amcs_determine_status(s, tai) ==
    LET way == AzDistance(s.start_position, s.position_commanded)
        length == IF way < 0 THEN -way ELSE way
        travelled == amcs_vmax * (tai - s.command_time_tai)
    IN  IF s.current_state = MOVING /\ tai > s.command_time_tai
        THEN IF travelled >= length
             THEN amcs_arrived(s, travelled - length)
             ELSE [s EXCEPT
                      !.position_actual =
                          (s.start_position
                               + (IF way < 0 THEN -travelled ELSE travelled))
                              % AzTurn,
                      !.velocity_actual =
                          IF way < 0 THEN -amcs_vmax ELSE amcs_vmax]
        ELSE IF s.current_state = CRAWLING
        THEN amcs_arrived(s, travelled - length)
        ELSE IF s.current_state = STOPPED
        THEN [s EXCEPT !.current_state = STATIONARY]
        ELSE s

\* setFault(drives[5]): sets drivesInError[i] for each drives[i] == 1 and
\* forces the state to Error; the dome stops where it is.
amcs_set_fault(s, drives_in_error) ==
    [raised |-> FALSE,
     llc |-> [s EXCEPT
         !.drives_in_error_state = [i \in AmcsMotors |->
             IF drives_in_error[i] = 1 THEN TRUE ELSE @[i]],
         !.velocity_actual = 0,
         !.current_state = ERROR]]

\* resetDrivesAz(reset[5]): clears the flags where reset[i] == 1.
amcs_reset_drives_az(s, reset) ==
    [raised |-> FALSE,
     llc |-> [s EXCEPT !.drives_in_error_state = [i \in AmcsMotors |->
                 IF reset[i] = 1 THEN FALSE ELSE @[i]]]]

\* exitFaultAz: fails while any drive is still errored; otherwise
\* Stationary, positions kept.
amcs_exit_fault(s, tai) ==
    IF amcs_drives_in_fault(s)
    THEN [raised |-> TRUE, llc |-> s]
    ELSE [raised |-> FALSE,
          llc |-> [s EXCEPT !.current_state = STATIONARY,
                            !.command_time_tai = tai]]

(***************************************************************************)
(* ApscsStatus, from the specification (4.2.3) and test_apscs.py.  The     *)
(* two shutters move together, and are at their commanded position at the  *)
(* next evaluation after the clock has moved.                              *)
(***************************************************************************)
APSCS_CLOSED_POSITION == 0
APSCS_OPEN_POSITION == 100

ApscsInit ==
    [current_state |-> [sh \in Shutters |-> PROXIMITY_CLOSED_LS_ENGAGED],
     position_actual |-> [sh \in Shutters |-> APSCS_CLOSED_POSITION],
     position_commanded |-> [sh \in Shutters |-> APSCS_CLOSED_POSITION],
     command_time_tai |-> 0,
     drives_in_error_state |->
         [sh \in Shutters |-> [i \in ShutterMotors |-> FALSE]]]

apscs_drives_in_fault(s) ==
    \E sh \in Shutters : \E i \in ShutterMotors :
        s.drives_in_error_state[sh][i]

\* openShutter and closeShutter: refused in ERROR (bad state).
apscs_move(s, position, tai) ==
    IF \E sh \in Shutters : s.current_state[sh] = ERROR
    THEN [raised |-> TRUE, llc |-> s]
    ELSE [raised |-> FALSE,
          llc |-> [s EXCEPT
              !.position_commanded = [sh \in Shutters |-> position],
              !.command_time_tai = tai,
              !.current_state = [sh \in Shutters |->
                  IF s.position_actual[sh] = position THEN @[sh]
                  ELSE IF position = APSCS_OPEN_POSITION
                  THEN OPENING ELSE CLOSING]]]

apscs_determine_status(s, tai) ==
    [s EXCEPT
        !.position_actual = [sh \in Shutters |->
            IF s.current_state[sh] \in {OPENING, CLOSING}
               /\ tai > s.command_time_tai
            THEN s.position_commanded[sh] ELSE @[sh]],
        !.current_state = [sh \in Shutters |->
            IF s.current_state[sh] \in {OPENING, CLOSING}
               /\ tai > s.command_time_tai
            THEN (IF s.position_commanded[sh] = APSCS_OPEN_POSITION
                  THEN PROXIMITY_OPEN_LS_ENGAGED
                  ELSE PROXIMITY_CLOSED_LS_ENGAGED)
            ELSE @[sh]]]

\* set_fault(drives_in_error[4]): the flag of motor i of shutter sh is set
\* for drives_in_error[sh * 2 + i] == 1, and the state is forced to Error.
apscs_set_fault(s, drives_in_error) ==
    [raised |-> FALSE,
     llc |-> [s EXCEPT
         !.drives_in_error_state = [sh \in Shutters |->
             [i \in ShutterMotors |->
                 IF drives_in_error[sh * APSCS_NUM_MOTORS_PER_SHUTTER + i] = 1
                 THEN TRUE ELSE @[sh][i]]],
         !.current_state = [sh \in Shutters |-> ERROR]]]

\* resetDrivesShutter(reset[4]): clears the flags where reset is 1.
apscs_reset_drives_shutter(s, reset) ==
    [raised |-> FALSE,
     llc |-> [s EXCEPT !.drives_in_error_state = [sh \in Shutters |->
         [i \in ShutterMotors |->
             IF reset[sh * APSCS_NUM_MOTORS_PER_SHUTTER + i] = 1
             THEN FALSE ELSE @[sh][i]]]]]

\* exitFaultShutter: fails while any drive is still errored; otherwise
\* Stationary, positions kept.
apscs_exit_fault(s, tai) ==
    IF apscs_drives_in_fault(s)
    THEN [raised |-> TRUE, llc |-> s]
    ELSE [raised |-> FALSE,
          llc |-> [s EXCEPT
                      !.current_state = [sh \in Shutters |-> STATIONARY],
                      !.command_time_tai = tai]]

(***************************************************************************)
(* Calls of the methods of the component under test.                       *)
(***************************************************************************)
\* The arguments that the model calls set_fault and reset_drives with.
AmcsDriveLists ==
    {OnesAt(AMCS_NUM_MOTORS, S) : S \in {{}, AmcsMotors, {0, 1}, {4}}}
ApscsDriveLists ==
    {OnesAt(APSCS_NUM_SHUTTERS * APSCS_NUM_MOTORS_PER_SHUTTER, S) :
        S \in {{}, 0..3, {1, 3}, {0}}}
LcsDrives == 0..(LCS_NUM_LOUVERS * LCS_NUM_MOTORS_PER_LOUVER - 1)
LcsDriveLists ==
    {OnesAt(LCS_NUM_LOUVERS * LCS_NUM_MOTORS_PER_LOUVER, S) :
        S \in {{}, LcsDrives, {0}, {34}, {35, 67}}}
\* The positions that the model calls setLouvers with: all louvers, or the
\* first and the last louver only.
LouverPositions ==
    {[l \in Louvers |-> 50], [l \in Louvers |-> 0],
     [l \in Louvers |-> IF l \in {0, LCS_NUM_LOUVERS - 1} THEN 100 ELSE -1]}
AzPositions == {0, 10 * 17453}

IsAllOnes(list) == \A i \in DOMAIN list : list[i] = 1

NoPlantCall == [method |-> None, raised |-> FALSE, phase |-> None]

\* The values of the flags of the drives of the component s in state llc.
DriveFlags(s, llc) ==
    IF s = "AMCS" THEN {llc.drives_in_error_state[i] : i \in AmcsMotors}
    ELSE IF s = "APSCS"
    THEN {llc.drives_in_error_state[sh][i] : sh \in Shutters, i \in ShutterMotors}
    ELSE {LcsDriveFlag(llc, l, i) : l \in Louvers, i \in LouverMotors}

\* The component s of the mock controller.
PlantState(s) == IF s = "AMCS" THEN amcs ELSE IF s = "APSCS" THEN apscs ELSE lcs

\* At least one drive flag of the component s is set.
AnyDriveFlag(s) == TRUE \in DriveFlags(s, PlantState(s))

\* Whether a go_stationary is in force (no motion command or stop since),
\* and how far a recovery from a fault has got: a set_fault that has left a
\* flag set, an exit_fault refused after it, a reset_drives with all ones
\* after that, and the exit_fault that has then succeeded.
NextPhase(method, raised, ones, flagged) ==
    IF method = "go_stationary" THEN "go_stationary"
    ELSE IF plant_call.phase = "go_stationary" /\ method \in {"move", "stop"}
    THEN None
    ELSE IF method = "set_fault" THEN (IF flagged THEN "faulted" ELSE None)
    ELSE IF method = "exit_fault"
    THEN (IF raised /\ plant_call.phase \in {"faulted", "refused"}
          THEN "refused"
          ELSE IF ~raised /\ plant_call.phase = "reset" THEN "exited"
          ELSE None)
    ELSE IF method = "reset_drives"
    THEN (IF ones /\ plant_call.phase \in {"faulted", "refused"}
          THEN "reset"
          ELSE IF flagged THEN plant_call.phase ELSE None)
    ELSE plant_call.phase

\* The call of a method of the component s that returns r (or raises).
PlantCall(s, method, r, ones) ==
    /\ llc_under_test = s
    /\ amcs' = IF s = "AMCS" THEN r.llc ELSE amcs
    /\ apscs' = IF s = "APSCS" THEN r.llc ELSE apscs
    /\ lcs' = IF s = "LCS" THEN r.llc ELSE lcs
    /\ plant_call' =
           [method |-> method, raised |-> r.raised,
            phase |-> NextPhase(method, r.raised, ones,
                                TRUE \in DriveFlags(s, r.llc))]
    /\ UNCHANGED <<llc_under_test, current_tai, ctrlVars, llc_power, bridgeVars,
                   handler_mode, command_queue, schedule_order, pm_call>>

PlantSetFault(s) ==
    \/ \E d \in AmcsDriveLists :
          s = "AMCS" /\ PlantCall(s, "set_fault", amcs_set_fault(amcs, d), FALSE)
    \/ \E d \in ApscsDriveLists :
          s = "APSCS"
              /\ PlantCall(s, "set_fault", apscs_set_fault(apscs, d), FALSE)
    \/ \E d \in LcsDriveLists :
          s = "LCS"
              /\ PlantCall(s, "set_fault",
                           lcs_set_fault(lcs, current_tai, d), FALSE)

PlantResetDrives(s, ones) ==
    \/ \E d \in AmcsDriveLists :
          /\ s = "AMCS" /\ ones = IsAllOnes(d)
          /\ PlantCall(s, "reset_drives", amcs_reset_drives_az(amcs, d), ones)
    \/ \E d \in ApscsDriveLists :
          /\ s = "APSCS" /\ ones = IsAllOnes(d)
          /\ PlantCall(s, "reset_drives",
                       apscs_reset_drives_shutter(apscs, d), ones)
    \/ \E d \in LcsDriveLists :
          /\ s = "LCS" /\ ones = IsAllOnes(d)
          /\ PlantCall(s, "reset_drives",
                       lcs_reset_drives_louvers(lcs, d), ones)

PlantExitFault(s) ==
    PlantCall(s, "exit_fault",
              IF s = "AMCS" THEN amcs_exit_fault(amcs, current_tai)
              ELSE IF s = "APSCS" THEN apscs_exit_fault(apscs, current_tai)
              ELSE lcs_exit_fault(lcs, current_tai),
              FALSE)

\* A motion command: moveAz, openShutter or closeShutter, setLouvers.
PlantMove(s) ==
    \/ \E p \in AzPositions :
          s = "AMCS"
              /\ PlantCall(s, "move", amcs_moveAz(amcs, p, 0, current_tai), FALSE)
    \/ \E p \in {APSCS_OPEN_POSITION, APSCS_CLOSED_POSITION} :
          s = "APSCS"
              /\ PlantCall(s, "move", apscs_move(apscs, p, current_tai), FALSE)
    \/ \E p \in LouverPositions :
          s = "LCS"
              /\ PlantCall(s, "move",
                           [raised |-> FALSE,
                            llc |-> lcs_setLouvers(lcs, p, current_tai)],
                           FALSE)

\* determine_status(current_tai).
PlantDetermineStatus(s) ==
    PlantCall(s, "determine_status",
              [raised |-> FALSE,
               llc |-> IF s = "AMCS"
                       THEN amcs_determine_status(amcs, current_tai)
                       ELSE IF s = "APSCS"
                       THEN apscs_determine_status(apscs, current_tai)
                       ELSE lcs_determine_status(lcs, current_tai)],
              FALSE)

\* The clock of the mock controller moves on.
PlantTick ==
    /\ current_tai < MaxTai
    /\ current_tai' = current_tai + TaiStep
    /\ UNCHANGED <<llc_under_test, amcs, apscs, lcs, plant_call, ctrlVars,
                   llc_power, bridgeVars, handler_mode, command_queue,
                   schedule_order, pm_call>>

\* moveAz(position, velocity) of the mock controller (mock_controller.py,
\* lines 419-438) hands the target and the velocity to crawl with to the
\* AMCS together with current_tai.
PlantMoveAz(position, velocity) ==
    PlantCall("AMCS", "move",
              amcs_moveAz(amcs, position, velocity, current_tai), FALSE)

\* set_louvers(position) of the mock controller (mock_controller.py, lines
\* 516-526) hands the positions to the LCS together with current_tai.
PlantSetLouvers(position) ==
    PlantCall("LCS", "move",
              [raised |-> FALSE,
               llc |-> lcs_setLouvers(lcs, position, current_tai)],
              FALSE)

\* stop_louvers of the mock controller (mock_controller.py, lines 533-536).
PlantStopLouvers ==
    PlantCall("LCS", "stop",
              [raised |-> FALSE, llc |-> lcs_stopLouvers(lcs, current_tai)],
              FALSE)

\* go_stationary_louvers of the mock controller (mock_controller.py, lines
\* 667-670).
PlantGoStationaryLouvers ==
    PlantCall("LCS", "go_stationary",
              [raised |-> FALSE, llc |-> lcs_go_stationary(lcs, current_tai)],
              FALSE)

\* The clock of the mock controller moves on by a part of the time that a
\* move takes.
PlantAdvance ==
    /\ current_tai + MoveStep <= MaxTai
    /\ current_tai' = current_tai + MoveStep
    /\ UNCHANGED <<llc_under_test, amcs, apscs, lcs, plant_call, ctrlVars,
                   llc_power, bridgeVars, handler_mode, command_queue,
                   schedule_order, pm_call>>

(***************************************************************************)
(* LwscsStatus, from the specification (4.2.2): the same structure as the  *)
(* AMCS.  The fault model, and the methods of the mock controller for the  *)
(* commands exitFaultEl and exitFaultLouvers (mock_controller.py, lines    *)
(* 757-765).                                                               *)
(***************************************************************************)
LwscsInit == AmcsInit

lwscs_set_fault(s, drives_in_error) == amcs_set_fault(s, drives_in_error)

lwscs_reset_drives_el(s, reset) == amcs_reset_drives_az(s, reset)

lwscs_exit_fault(s, tai) == amcs_exit_fault(s, tai)

\* What a call of a method of the LwscsStatus or the LcsStatus through the
\* mock controller leaves unchanged, the two components apart.
notElLouversVars ==
    <<constructedVars, conversion, thcs, watchdog, polling, lifeVars,
      lockVars, pollVars, histVars, has_non_status_command, index_iter,
      commands_without_reply, pmVars, pc, cur, poll_pos, link,
      exit_fault_run, pm_call, llc_power, llc_under_test, current_tai, amcs,
      apscs, ctrlVars>>

\* The call of a method of the LwscsStatus that returns r (or raises).
LwscsCall(method, r) ==
    /\ lwscs' = r.llc
    /\ plant_call' = [method |-> method, raised |-> r.raised, phase |-> None]
    /\ UNCHANGED <<lcs, notElLouversVars>>

LwscsSetFault ==
    \E d \in AmcsDriveLists :
        LwscsCall("set_fault_el", lwscs_set_fault(lwscs, d))

LwscsResetDrives ==
    \E d \in AmcsDriveLists :
        LwscsCall("reset_drives_el", lwscs_reset_drives_el(lwscs, d))

\* exit_fault_el of the mock controller (lines 757-760).
ExitFaultEl ==
    LET r == lcs_exit_fault(lcs, current_tai)
    IN  /\ lcs' = r.llc
        /\ plant_call' =
               [method |-> "exit_fault_el", raised |-> r.raised,
                phase |-> None]
        /\ UNCHANGED <<lwscs, notElLouversVars>>

\* exit_fault_louvers of the mock controller (lines 762-765).
ExitFaultLouvers ==
    LwscsCall("exit_fault_louvers", lwscs_exit_fault(lwscs, current_tai))

(***************************************************************************)
(* ThcsStatus (thcs.py) and the methods of the mock controller that call   *)
(* it (mock_controller.py, lines 736-745 and 767-770).                     *)
(***************************************************************************)
DISABLED == "DISABLED"
ENABLING == "ENABLING"
\* MotionState.ENABLED.name; ENABLED alone is an operator of TLA+.
ENABLED_NAME == "ENABLED"
DISABLING == "DISABLING"

THCS_NUM_CABINET_TEMPERATURES == 3
THCS_NUM_MOTOR_COIL_TEMPERATURES == 5
THCS_NUM_MOTOR_DRIVE_TEMPERATURES == 10

\* ThcsStatus.__init__ (lines 42-50) with BaseMockStatus.__init__.
ThcsInit ==
    [drive_temperature |->
         [i \in 0..(THCS_NUM_MOTOR_DRIVE_TEMPERATURES - 1) |-> 0],
     motor_coil_temperature |->
         [i \in 0..(THCS_NUM_MOTOR_COIL_TEMPERATURES - 1) |-> 0],
     cabinet_temperature |->
         [i \in 0..(THCS_NUM_CABINET_TEMPERATURES - 1) |-> 0],
     current_state |-> DISABLED,
     target_state |-> DISABLED,
     command_time_tai |-> 0]

\* evaluate_state (lines 52-67).
thcs_evaluate_state(s) ==
    IF s.target_state = ENABLED_NAME
    THEN IF s.current_state = DISABLED
         THEN [s EXCEPT !.current_state = ENABLING]
         ELSE IF s.current_state = ENABLING
         THEN [s EXCEPT !.current_state = ENABLED_NAME]
         ELSE s
    ELSE IF s.target_state = DISABLED
    THEN IF s.current_state = ENABLED_NAME
         THEN [s EXCEPT !.current_state = DISABLING]
         ELSE IF s.current_state = DISABLING
         THEN [s EXCEPT !.current_state = DISABLED]
         ELSE s
    ELSE s

\* set_temperature (lines 87-102).
thcs_set_temperature(s, temperature, tai) ==
    [s EXCEPT !.command_time_tai = tai,
              !.drive_temperature = [i \in DOMAIN @ |-> temperature],
              !.motor_coil_temperature = [i \in DOMAIN @ |-> temperature],
              !.cabinet_temperature = [i \in DOMAIN @ |-> temperature]]

\* start_cooling (lines 104-113).
thcs_start_cooling(s, tai) ==
    [s EXCEPT !.command_time_tai = tai, !.target_state = ENABLED_NAME]

\* stop_cooling (lines 115-124).
thcs_stop_cooling(s, tai) ==
    [s EXCEPT !.command_time_tai = tai, !.target_state = DISABLED]

\* exit_fault (lines 126-128).
thcs_exit_fault(s) == [s EXCEPT !.current_state = STATIONARY]

\* What a call of a method of the ThcsStatus leaves unchanged.
notThcsVars == <<constructedVars, conversion, lwscs, watchdog, polling, lifeVars, lockVars, pollVars,
                 histVars, has_non_status_command, index_iter,
                 commands_without_reply, pmVars, pc, cur, poll_pos, link,
                 callVars>>

\* determine_status (lines 69-85): evaluate_state, then the status.
ThcsDetermineStatus ==
    /\ thcs' = thcs_evaluate_state(thcs)
    /\ UNCHANGED notThcsVars

ThcsStartCooling ==
    /\ thcs' = thcs_start_cooling(thcs, current_tai)
    /\ UNCHANGED notThcsVars

ThcsStopCooling ==
    /\ thcs' = thcs_stop_cooling(thcs, current_tai)
    /\ UNCHANGED notThcsVars

\* set_temperature of the mock controller (mock_controller.py, lines
\* 736-745).
ThcsSetTemperature(temperature) ==
    /\ thcs' = thcs_set_temperature(thcs, temperature, current_tai)
    /\ UNCHANGED notThcsVars

\* exit_fault_thermal of the mock controller (mock_controller.py, lines
\* 767-770).
ThcsExitFault ==
    /\ thcs' = thcs_exit_fault(thcs)
    /\ UNCHANGED notThcsVars

(***************************************************************************)
(* The reply watchdog: check_all_commands_have_replies (mtdome_com.py,     *)
(* lines 1414-1442) over the send times of the commands without reply.     *)
(* watchdog.commands_without_reply maps a commandId to the tai of its      *)
(* CommandTime; tai is utils.current_tai() in seconds.                     *)
(***************************************************************************)
COMMANDS_REPLIED_PERIOD == 600

MaxWatched == 3
MaxWatchTai == 1500
WatchSteps == {300, 599}

WatchdogInit ==
    [commands_without_reply |-> <<>>,
     index |-> 1,
     tai |-> 0,
     checked |-> -1,
     commands_to_remove |-> {},
     commands_still_waiting |-> {}]

\* Faulty variant of check_all_commands_have_replies: an entry is given up
\* or reported only when it is older than the limit.
check_all_commands_older(table, now) ==
    LET commands_to_remove ==
            {id \in DOMAIN table :
                now - table[id] > 2 * COMMANDS_REPLIED_PERIOD}
        commands_still_waiting ==
            {id \in DOMAIN table \ commands_to_remove :
                now - table[id] > COMMANDS_REPLIED_PERIOD}
    IN  [commands_without_reply |->
             [id \in DOMAIN table \ commands_to_remove |-> table[id]],
         commands_to_remove |-> commands_to_remove,
         commands_still_waiting |-> commands_still_waiting]

\* check_all_commands_have_replies (lines 1414-1442): the table after the
\* check, the ids of the error log and the ids of the warning log.
check_all_commands_have_replies(table, now) ==
    LET commands_to_remove ==
            {id \in DOMAIN table :
                now - table[id] >= 2 * COMMANDS_REPLIED_PERIOD}
        commands_still_waiting ==
            {id \in DOMAIN table \ commands_to_remove :
                now - table[id] >= COMMANDS_REPLIED_PERIOD}
    IN  [commands_without_reply |->
             [id \in DOMAIN table \ commands_to_remove |-> table[id]],
         commands_to_remove |-> commands_to_remove,
         commands_still_waiting |-> commands_still_waiting]

notWatchdogVars == <<constructedVars, conversion, thcs, lwscs, polling, lifeVars, lockVars,
                     pollVars, histVars, has_non_status_command, index_iter,
                     commands_without_reply, pmVars, pc, cur, poll_pos, link,
                     callVars>>

\* write_then_read_reply notes the time of a command (lines 677-680).
WatchdogWrite ==
    /\ watchdog.index <= MaxWatched
    /\ watchdog' =
           [watchdog EXCEPT
               !.commands_without_reply =
                   DictPut(@, watchdog.index, watchdog.tai),
               !.index = @ + 1]
    /\ UNCHANGED notWatchdogVars

\* The reply to a command arrives (lines 727-728).
WatchdogReply(command_id) ==
    /\ command_id \in DOMAIN watchdog.commands_without_reply
    /\ watchdog' =
           [watchdog EXCEPT
               !.commands_without_reply = DictPop(@, command_id)]
    /\ UNCHANGED notWatchdogVars

\* Time goes by.
WatchdogAdvance(step) ==
    /\ watchdog.tai + step <= MaxWatchTai
    /\ watchdog' = [watchdog EXCEPT !.tai = @ + step]
    /\ UNCHANGED notWatchdogVars

\* One run of the periodic task check_all_commands_have_replies.
WatchdogCheck ==
    /\ LET checked == check_all_commands_have_replies(
                          watchdog.commands_without_reply, watchdog.tai)
       IN  watchdog' =
               [watchdog EXCEPT
                   !.commands_without_reply = checked.commands_without_reply,
                   !.checked = watchdog.tai,
                   !.commands_to_remove = checked.commands_to_remove,
                   !.commands_still_waiting = checked.commands_still_waiting]
    /\ UNCHANGED notWatchdogVars

(***************************************************************************)
(* The status polling over every LlcName: _start_periodic_tasks            *)
(* (mtdome_com.py, lines 396-418), query_status (438-460) and the loop of  *)
(* one_periodic_task around it (462-502).  A status method returns or      *)
(* raises; has_non_status_command is True or False at each test.           *)
(***************************************************************************)
\* enums.py, lines 182-194, in the order of the enumeration.
LlcName == <<"AMCS", "ApSCS", "CBCS", "CSCS", "LCS", "LWSCS", "MonCS", "OBC",
             "RAD", "ThCS">>
LlcNameValues == {LlcName[i] : i \in 1..Len(LlcName)}

\* mtdome_com.py, lines 161-171.
_STATUS_POKE_PERIODS ==
    [l \in LlcNameValues \ {"OBC"} |-> IF l = "AMCS" THEN 2 ELSE 5]

PollingInit ==
    [started |-> FALSE, alive |-> FALSE, counts |-> <<>>, pos |-> 0,
     requested |-> {}, failed |-> {}]

\* The keys of self._status_command_counts, in insertion order.
PollingKeys ==
    SelectSeq(LlcName, LAMBDA l : l \in DOMAIN polling.counts)

notPollingVars == <<constructedVars, conversion, thcs, lwscs, watchdog,
                    lifeVars, lockVars, pollVars, histVars,
                    has_non_status_command, index_iter, commands_without_reply,
                    pmVars, pc, cur, poll_pos, link, callVars>>

\* _start_periodic_tasks (lines 396-418): a count for every LlcName with a
\* telemetry callback, and the task of query_status.
StartPeriodicTasks ==
    /\ ~polling.started
    /\ polling' =
           [polling EXCEPT
               !.started = TRUE,
               !.alive = TRUE,
               !.counts = [l \in telemetry_callbacks \cap LlcNameValues |-> 0]]
    /\ UNCHANGED notPollingVars

\* one_periodic_task (lines 485-493): await method(), after the sleep.
QueryStatus ==
    /\ polling.alive
    /\ polling.pos = 0
    /\ polling' = [polling EXCEPT !.pos = 1, !.requested = {}, !.failed = {}]
    /\ UNCHANGED notPollingVars

\* Faulty variant of PokePeriodKnown: every LlcName has a period.
EveryPokePeriodKnown(l) == TRUE

\* _STATUS_POKE_PERIODS[llc_name] (line 450) raises a KeyError for a name
\* that is not a key.
PokePeriodKnown(l) == l \in DOMAIN _STATUS_POKE_PERIODS

\* One iteration of the loop of query_status (lines 441-460).  An
\* exception of the status method is caught (lines 455-460); one raised
\* outside the try statement leaves query_status and ends
\* one_periodic_task (lines 499-502).
QueryStatusIter(busy, raises) ==
    /\ polling.alive
    /\ polling.pos > 0
    /\ polling' =
           IF polling.pos > Len(PollingKeys) \/ busy
           THEN [polling EXCEPT !.pos = 0]
           ELSE LET l == PollingKeys[polling.pos]
                    n == polling.counts[l] + 1
                IN  IF ~PokePeriodKnown(l)
                    THEN [polling EXCEPT !.counts[l] = n, !.pos = 0,
                                         !.alive = FALSE]
                    ELSE IF n >= _STATUS_POKE_PERIODS[l]
                    THEN [polling EXCEPT
                             !.counts[l] = 0,
                             !.pos = @ + 1,
                             !.requested = @ \cup {l},
                             !.failed = IF raises THEN @ \cup {l} ELSE @]
                    ELSE [polling EXCEPT !.counts[l] = n, !.pos = @ + 1]
    /\ UNCHANGED notPollingVars

(***************************************************************************)
(* MockMTDomeController.read_and_dispatch (mock_controller.py, lines       *)
(* 246-312) with write_reply (232-241) and request_and_send_status         *)
(* (377-405): one command is read, dispatched to the method of the lower   *)
(* level component and answered.  The commands of a behaviour are those    *)
(* whose method works on the component under test, and commands without a  *)
(* method.                                                                 *)
(***************************************************************************)
LONG_DURATION == 20

\* The keys of self.dispatch_dict (lines 125-178).
dispatch_dict ==
    {"closeLouvers", "closeShutter", "config", "crawlAz", "crawlEl",
     "exitFaultAz", "exitFaultEl", "exitFaultShutter", "exitFaultLouvers",
     "exitFaultThermal", "fans", "goStationaryAz", "goStationaryEl",
     "goStationaryLouvers", "goStationaryShutter", "home", "inflate",
     "moveAz", "moveEl", "openShutter", "park", "resetDrivesAz",
     "resetDrivesShutter", "restore", "setDegradedAz", "setDegradedEl",
     "setDegradedLouvers", "setDegradedMonitoring", "setDegradedShutter",
     "setDegradedThermal", "setLouvers", "setNormalAz", "setNormalEl",
     "setNormalLouvers", "setNormalMonitoring", "setNormalShutter",
     "setNormalThermal", "setTemperature", "setZeroAz", "statusAMCS",
     "statusApSCS", "statusCBCS", "statusCSCS", "statusLCS", "statusLWSCS",
     "statusMonCS", "statusRAD", "statusThCS", "stopAz", "stopEl",
     "stopLouvers", "stopShutter"}

\* enums.py, lines 281-314.
CSCS_COMMANDS == {"statusCSCS"}
EL_COMMANDS ==
    {"crawlEl", "exitFaultEl", "goStationaryEl", "moveEl", "setDegradedEl",
     "setNormalEl", "statusLWSCS", "stopEl"}
LOUVERS_COMMANDS ==
    {"closeLouvers", "exitFaultLouvers", "goStationaryLouvers",
     "setDegradedLouvers", "setLouvers", "setNormalLouvers", "statusLCS",
     "stopLouvers"}
RAD_COMMANDS == {"statusRAD"}
SHUTTER_COMMANDS ==
    {"closeShutter", "exitFaultShutter", "goStationaryShutter", "home",
     "openShutter", "resetDrivesShutter", "setDegradedShutter",
     "setNormalShutter", "statusApSCS", "stopShutter"}

\* mock_controller.py, lines 56-58.
ROTATING_COMMANDS ==
    CSCS_COMMANDS \cup EL_COMMANDS \cup LOUVERS_COMMANDS \cup RAD_COMMANDS
        \cup SHUTTER_COMMANDS

\* cmd.startswith("status") for the names of CommandName.
StartsWithStatus(cmd) ==
    cmd \in {"statusAMCS", "statusApSCS", "statusCBCS", "statusCSCS",
             "statusLCS", "statusLWSCS", "statusMonCS", "statusRAD",
             "statusThCS"}

\* LlcName.<s>.value, the key of the status in the reply.
LlcNameValue(s) == IF s = "APSCS" THEN "ApSCS" ELSE s

\* The timeout of a reply: -1, LONG_DURATION, or the duration that the
\* method of the component has returned.
TimeoutOf(duration) ==
    IF duration = None THEN "LONG_DURATION" ELSE duration

\* write_reply(response=..., timeout=...) (lines 232-241, 312): the reply
\* carries self._command_id.
GenericReply(command_id, response, timeout) ==
    [commandId |-> command_id, response |-> response, timeout |-> timeout,
     key |-> None]

\* write_reply(response=ResponseCode.OK, **state) of
\* request_and_send_status (lines 391-405).
StatusReply(command_id, s) ==
    [commandId |-> command_id, response |-> OK, timeout |-> None,
     key |-> LlcNameValue(s)]

\* validate(data) of encoding_tools: the command has the schema of a
\* command.
validate(data) == data.schema_ok

\* The commands of the model whose method works on the component s, and
\* the parameters they are sent with.
DispatchCommands(s) ==
    IF s = "AMCS"
    THEN {"statusAMCS", "moveAz", "exitFaultAz", "resetDrivesAz"}
    ELSE IF s = "APSCS"
    THEN {"statusApSCS", "openShutter", "closeShutter", "exitFaultShutter",
          "resetDrivesShutter"}
    ELSE {"statusLCS", "setLouvers", "exitFaultEl"}

\* Commands without a method in dispatch_dict.
UnknownCommands == {"resetDrivesLouvers"}

\* The drive lists of the commands and of set_fault: no drive, the first
\* drive, every drive.
DispatchDriveLists(n) == {OnesAt(n, S) : S \in {{}, {0}, 0..(n - 1)}}

NumDrives(s) ==
    IF s = "AMCS" THEN AMCS_NUM_MOTORS
    ELSE IF s = "APSCS" THEN APSCS_NUM_SHUTTERS * APSCS_NUM_MOTORS_PER_SHUTTER
    ELSE LCS_NUM_LOUVERS * LCS_NUM_MOTORS_PER_LOUVER

ParametersOf(cmd) ==
    IF cmd = "moveAz" THEN AzPositions
    ELSE IF cmd = "resetDrivesAz" THEN DispatchDriveLists(NumDrives("AMCS"))
    ELSE IF cmd = "resetDrivesShutter" THEN DispatchDriveLists(NumDrives("APSCS"))
    ELSE IF cmd = "setLouvers"
    THEN {[l \in Louvers |-> IF l \in {0, LCS_NUM_LOUVERS - 1} THEN 100 ELSE -1]}
    ELSE {None}

\* The method of dispatch_dict for the command (lines 419-438, 479-528,
\* 745-775, 798-838), called with the parameters: whether it raised, the
\* component after the call and the duration returned.
CallMethod(s, cmd, parameters) ==
    LET done(r, duration) ==
            [raised |-> r.raised, llc |-> r.llc, duration |-> duration]
        ok(llc) == [raised |-> FALSE, llc |-> llc]
    IN  IF cmd = "statusAMCS"
        THEN done(ok(amcs_determine_status(amcs, current_tai)), None)
        ELSE IF cmd = "moveAz"
        THEN done(amcs_moveAz(amcs, parameters, 0, current_tai), "duration")
        ELSE IF cmd = "exitFaultAz"
        THEN done(amcs_exit_fault(amcs, current_tai), None)
        ELSE IF cmd = "resetDrivesAz"
        THEN done(amcs_reset_drives_az(amcs, parameters), "duration")
        ELSE IF cmd = "statusApSCS"
        THEN done(ok(apscs_determine_status(apscs, current_tai)), None)
        ELSE IF cmd = "openShutter"
        THEN done(apscs_move(apscs, APSCS_OPEN_POSITION, current_tai), "duration")
        ELSE IF cmd = "closeShutter"
        THEN done(apscs_move(apscs, APSCS_CLOSED_POSITION, current_tai),
                  "duration")
        ELSE IF cmd = "exitFaultShutter"
        THEN done(apscs_exit_fault(apscs, current_tai), None)
        ELSE IF cmd = "resetDrivesShutter"
        THEN done(apscs_reset_drives_shutter(apscs, parameters), None)
        ELSE IF cmd = "statusLCS"
        THEN done(ok(lcs_determine_status(lcs, current_tai)), None)
        ELSE IF cmd = "setLouvers"
        THEN done(ok(lcs_setLouvers(lcs, parameters, current_tai)), None)
        ELSE \* exitFaultEl: self.lcs.exit_fault (lines 757-760)
             done(lcs_exit_fault(lcs, current_tai), None)

\* Faulty variant of RepliesItself: no method writes its own reply.
NoMethodReplies(cmd) == FALSE

\* The status commands take care of sending a reply themselves (lines
\* 295-298).
RepliesItself(cmd) == StartsWithStatus(cmd)

\* Faulty variant of IsRotatingCommand: the status requests reach the
\* rotating part.
IsRotatingNonStatusCommand(cmd) ==
    cmd \in ROTATING_COMMANDS /\ ~StartsWithStatus(cmd)

\* cmd in ROTATING_COMMANDS (line 282).
IsRotatingCommand(cmd) == cmd \in ROTATING_COMMANDS

\* read_and_dispatch for the command data: the value of self._command_id,
\* the replies written, the method called (if one was) and the component
\* under test afterwards.
read_and_dispatch(s, data) ==
    LET cmd == data.command
        refused(command_id, response) ==
            [command_id |-> command_id,
             replies |-> <<GenericReply(command_id, response, "-1")>>,
             called |-> None, raised |-> FALSE, llc |-> PlantState(s)]
    IN  IF ~validate(data)
        THEN refused(IF data.commandId # <<>> THEN data.commandId[1]
                     ELSE ctrl.command_id,
                     INCORRECT_PARAMETERS)
        ELSE LET command_id == data.commandId[1]
             IN  IF cmd \notin dispatch_dict
                 THEN refused(command_id, UNSUPPORTED)
                 ELSE IF ctrl.enable_network_interruption
                 THEN [command_id |-> command_id, replies |-> <<>>,
                       called |-> None, raised |-> FALSE,
                       llc |-> PlantState(s)]
                 ELSE IF ctrl.communication_error /\ IsRotatingCommand(cmd)
                 THEN refused(command_id, ROTATING_PART_NOT_RECEIVED)
                 ELSE LET r == CallMethod(s, cmd, data.parameters)
                      IN  [command_id |-> command_id,
                           replies |->
                               IF r.raised
                               THEN <<GenericReply(command_id,
                                                   INCORRECT_PARAMETERS, "-1")>>
                               ELSE (IF StartsWithStatus(cmd)
                                     THEN <<StatusReply(command_id, s)>>
                                     ELSE <<>>)
                                    \o (IF RepliesItself(cmd) THEN <<>>
                                        ELSE <<GenericReply(command_id, OK,
                                                   TimeoutOf(r.duration))>>),
                           called |-> cmd, raised |-> r.raised,
                           llc |-> r.llc]

\* The commandIds of the commands that the controller reads.
DispatchIds == 1..MaxDispatchId

\* A command as read_json returns it; commandId is empty when the data has
\* no commandId.
CommandData(commandId, cmd, parameters, schema_ok) ==
    [commandId |-> commandId, command |-> cmd, parameters |-> parameters,
     schema_ok |-> schema_ok]

NothingDispatched == [command |-> None, commandId |-> <<>>, schema_ok |-> FALSE,
                      replies |-> <<>>, called |-> None, raised |-> FALSE]

CtrlInit == [command_id |-> -1, communication_error |-> FALSE,
             enable_network_interruption |-> FALSE]

\* The read loop of the controller takes the command data and dispatches it.
Dispatch(data) ==
    /\ llc_under_test \in DriveLlcs
    /\ LET s == llc_under_test
           r == read_and_dispatch(s, data)
       IN  /\ ctrl' = [ctrl EXCEPT !.command_id = r.command_id]
           /\ amcs' = IF s = "AMCS" THEN r.llc ELSE amcs
           /\ apscs' = IF s = "APSCS" THEN r.llc ELSE apscs
           /\ lcs' = IF s = "LCS" THEN r.llc ELSE lcs
           /\ dispatched' =
                  [command |-> data.command, commandId |-> data.commandId,
                   schema_ok |-> data.schema_ok,
                   replies |-> r.replies, called |-> r.called,
                   raised |-> r.raised]
    /\ UNCHANGED <<llc_under_test, current_tai, plant_call, llc_power,
                   bridgeVars, handler_mode, command_queue, schedule_order,
                   pm_call>>

\* A command with the schema of a command.
DispatchCommand ==
    \E id \in DispatchIds :
        \E cmd \in DispatchCommands(llc_under_test) \cup UnknownCommands :
            \E p \in ParametersOf(cmd) :
                Dispatch(CommandData(<<id>>, cmd, p, TRUE))

\* Data without the schema of a command, with or without a commandId.
DispatchMalformed ==
    \E commandId \in {<<>>} \cup {<<id>> : id \in DispatchIds} :
        Dispatch(CommandData(commandId, "moveAz", None, FALSE))

\* set_fault of the component under test, as a unit test calls it.
DispatchSetFault ==
    \E d \in DispatchDriveLists(NumDrives(llc_under_test)) :
        /\ llc_under_test \in DriveLlcs
        /\ LET s == llc_under_test
               r == IF s = "AMCS" THEN amcs_set_fault(amcs, d)
                    ELSE IF s = "APSCS" THEN apscs_set_fault(apscs, d)
                    ELSE lcs_set_fault(lcs, current_tai, d)
           IN  /\ amcs' = IF s = "AMCS" THEN r.llc ELSE amcs
               /\ apscs' = IF s = "APSCS" THEN r.llc ELSE apscs
               /\ lcs' = IF s = "LCS" THEN r.llc ELSE lcs
        /\ UNCHANGED <<ctrlVars, llc_under_test, current_tai, plant_call,
                       llc_power, bridgeVars, handler_mode, command_queue,
                       schedule_order, pm_call>>

\* mock_ctrl.enable_network_interruption = b, as a unit test sets it.
SetNetworkInterruption(b) ==
    /\ ctrl.enable_network_interruption # b
    /\ ctrl' = [ctrl EXCEPT !.enable_network_interruption = b]
    /\ UNCHANGED <<dispatched, llc_under_test, current_tai, amcs, apscs, lcs,
                   plant_call, llc_power, bridgeVars, handler_mode,
                   command_queue, schedule_order, pm_call>>

\* The communication error with the rotating part is switched on or off.
SetCommunicationError(b) ==
    /\ ctrl.communication_error # b
    /\ ctrl' = [ctrl EXCEPT !.communication_error = b]
    /\ UNCHANGED <<dispatched, llc_under_test, current_tai, amcs, apscs, lcs,
                   plant_call, llc_power, bridgeVars, handler_mode,
                   command_queue, schedule_order, pm_call>>

(***************************************************************************)
(* config_llcs (lines 1168-1198) with the limits of AmcsLimits             *)
(* (amcs_limits.py, lines 46-81) and LwscsLimits.  A configuration is a    *)
(* sequence of settings [target, setting]; a setting is in thousandths of  *)
(* a degree per s^n, a limit in microradians per s^n.                      *)
(***************************************************************************)
\* math.radians of a value in thousandths of a degree.
RadiansOfMilli(m) == (m * 17453) \div 1000

\* constants.py, lines 42-46 and 86-90: math.radians(3.0), (0.75), (1.5),
\* (3.5), (0.875), (1.75).
AMCS_JMAX == RadiansOfMilli(3000)
AMCS_AMAX == RadiansOfMilli(750)
AMCS_VMAX == RadiansOfMilli(1500)
LWSCS_JMAX == RadiansOfMilli(3500)
LWSCS_AMAX == RadiansOfMilli(875)
LWSCS_VMAX == RadiansOfMilli(1750)

\* The limits that validate hands to validate_common_parameters
\* (amcs_limits.py, line 75).
common_limits(system) ==
    IF system = "AMCS"
    THEN [jmax |-> AMCS_JMAX, amax |-> AMCS_AMAX, vmax |-> AMCS_VMAX]
    ELSE [jmax |-> LWSCS_JMAX, amax |-> LWSCS_AMAX, vmax |-> LWSCS_VMAX]

\* Faulty variant of validate_common_parameters: a setting with an unknown
\* target is passed on as it is, and a value is not compared with a limit.
validate_nothing(configuration_parameters, limits) ==
    [error |-> FALSE,
     converted |-> [i \in DOMAIN configuration_parameters |->
                       [target |-> configuration_parameters[i].target,
                        setting |-> RadiansOfMilli(
                                        configuration_parameters[i].setting)]]]

\* validate_common_parameters: an error for a target that has no limit and
\* for a value that is not between 0 and the limit of its target, otherwise
\* the settings in radians.
validate_common_parameters(configuration_parameters, limits) ==
    LET InRange(c) ==
            /\ c.target \in DOMAIN limits
            /\ 0 <= RadiansOfMilli(c.setting)
            /\ RadiansOfMilli(c.setting) <= limits[c.target]
    IN  [error |-> \E i \in DOMAIN configuration_parameters :
                      ~InRange(configuration_parameters[i]),
         converted |-> [i \in DOMAIN configuration_parameters |->
                           [target |-> configuration_parameters[i].target,
                            setting |-> RadiansOfMilli(
                                            configuration_parameters[i].setting)]]]

\* config_llcs(system, settings): the settings are validated against the
\* limits of AMCS or LWSCS, any other system raises ValueError; only then
\* the flag of non-status commands is set and the config command is sent.
ConfigLlcs(t, system, settings) ==
    /\ CanStart(t)
    /\ IF /\ system \in {"AMCS", "LWSCS"}
          /\ ~validate_common_parameters(settings, common_limits(system)).error
       THEN /\ SendNonStatusCommand(t, "config")
            /\ UNCHANGED <<configVars, callVars, lifeVars, pmVars,
                           status_command_counts>>
       ELSE /\ pc' = [pc EXCEPT ![t] = "raised"]
            /\ UNCHANGED <<configVars, callVars, lifeVars, lockVars, pmVars,
                           pollVars, histVars, has_non_status_command,
                           index_iter, commands_without_reply, cur, poll_pos,
                           link>>

(***************************************************************************)
(* The azimuth offset: move_az (mtdome_com.py, lines 771-798) turns the    *)
(* target position into the angle of the dome and _pre_process_status      *)
(* (lines 1338-1385) turns the angles of a status into telemetry.  Angles  *)
(* in degrees are whole degrees; angles in radians are whole microradians, *)
(* with pi / 180 taken as 17453 microradians.                              *)
(***************************************************************************)
DOME_AZIMUTH_OFFSET == 32

\* math.radians and math.degrees.
math_radians(deg) == deg * 17453
math_degrees(rad) == (2 * rad + 17453) \div (2 * 17453)

\* utils.angle_wrap_nonnegative(angle).degree: the angle in [0, 360).
angle_wrap_nonnegative(deg) == deg % 360

_AMCS_KEYS_OFFSET == {"positionActual", "positionCommanded"}
_KEYS_IN_RADIANS == {"velocityActual", "velocityCommanded"} \cup _AMCS_KEYS_OFFSET

\* The parameters of the moveAz command (lines 789-798).
move_az_parameters(position, velocity) ==
    LET dome_position == angle_wrap_nonnegative(position + DOME_AZIMUTH_OFFSET)
    IN  [position |-> math_radians(dome_position),
         velocity |-> math_radians(velocity)]

\* Faulty variant of CompensatesOffset: the offset is taken off the
\* positions of every component.
CompensatesOffsetOfAll(key, llc_name) == key \in _AMCS_KEYS_OFFSET

\* if key in _AMCS_KEYS_OFFSET and llc_name == LlcName.AMCS.value (line
\* 1368).
CompensatesOffset(key, llc_name) ==
    key \in _AMCS_KEYS_OFFSET /\ llc_name = "AMCS"

\* _pre_process_status (lines 1356-1380) for a status with angles only.
pre_process_status(llc_name, llc_status) ==
    [key \in DOMAIN llc_status |->
        IF key \in _KEYS_IN_RADIANS /\ llc_name \in {"AMCS", "LWSCS"}
        THEN IF CompensatesOffset(key, llc_name)
             THEN angle_wrap_nonnegative(math_degrees(llc_status[key])
                                         - DOME_AZIMUTH_OFFSET)
             ELSE math_degrees(llc_status[key])
        ELSE llc_status[key]]

\* The target positions [deg] and velocities [deg/s] of move_az, and the
\* angles [deg] and velocities that a component reports, some of them
\* outside [0, 360).
SkyPositions == 0..359
SkyVelocities == {-1, 2}
ReportedAngles == {-10, 31, 360, 400}

NoConversion ==
    [op |-> None, position |-> 0, velocity |-> 0,
     command |-> [position |-> 0, velocity |-> 0],
     llc_name |-> None,
     llc_status |-> [positionActual |-> 0, positionCommanded |-> 0,
                     velocityActual |-> 0, velocityCommanded |-> 0],
     telemetry |-> [positionActual |-> 0, positionCommanded |-> 0,
                    velocityActual |-> 0, velocityCommanded |-> 0]]

\* move_az(position, velocity) computes the parameters of its command.
ConvertMoveAz(position, velocity) ==
    /\ conversion' = [NoConversion EXCEPT
                         !.op = "move_az",
                         !.position = position,
                         !.velocity = velocity,
                         !.command = move_az_parameters(position, velocity)]
    /\ UNCHANGED <<constructedVars, thcs, lwscs, watchdog, polling, lifeVars, lockVars, pollVars, histVars,
                   has_non_status_command, index_iter, commands_without_reply,
                   pmVars, pc, cur, poll_pos, link, callVars>>

\* The component has the commanded position and velocity of the last
\* moveAz, as the mock AMCS stores them, is at some angle, and its status
\* is pre-processed.
ConvertStatus(llc_name, actual) ==
    /\ conversion.op # None
    /\ LET llc_status ==
               [positionActual |-> math_radians(actual),
                positionCommanded |-> conversion.command.position,
                velocityActual |-> conversion.command.velocity,
                velocityCommanded |-> conversion.command.velocity]
       IN  conversion' = [conversion EXCEPT
                             !.op = "status",
                             !.llc_name = llc_name,
                             !.llc_status = llc_status,
                             !.telemetry =
                                 pre_process_status(llc_name, llc_status)]
    /\ UNCHANGED <<constructedVars, thcs, lwscs, watchdog, polling, lifeVars, lockVars, pollVars, histVars,
                   has_non_status_command, index_iter, commands_without_reply,
                   pmVars, pc, cur, poll_pos, link, callVars>>

(***************************************************************************)
(* The status poller: one_periodic_task(query_status) (lines 462-502) and  *)
(* query_status (lines 438-460).                                           *)
(***************************************************************************)
\* The keys of self._status_command_counts, in insertion order.
Registered == SelectSeq(LlcOrder, LAMBDA l : l \in DOMAIN status_command_counts)

\* The last m entries of the window extended by x.
Slide(w, x, m) == IF Len(w) < m THEN Append(w, x) ELSE Append(Tail(w), x)

\* while self.run_periodic_tasks: await method()
PollerWake ==
    /\ pc[Poller] = "sleep"
    /\ run_periodic_tasks
    /\ pc' = [pc EXCEPT ![Poller] = "iter"]
    /\ poll_pos' = 1
    /\ UNCHANGED <<configVars, callVars, lifeVars, lockVars, has_non_status_command,
                   index_iter, commands_without_reply, pmVars, pollVars, cur,
                   link, histVars>>

\* The loop of one_periodic_task ends when run_periodic_tasks is False.
PollerStop ==
    /\ pc[Poller] = "sleep"
    /\ ~run_periodic_tasks
    /\ pc' = [pc EXCEPT ![Poller] = "off"]
    /\ task_alive' = task_alive \ {"query_status"}
    /\ UNCHANGED <<configVars, callVars, client, mock_ctrl, run_periodic_tasks,
                   periodic_tasks, after_disconnect, lockVars,
                   has_non_status_command, index_iter, commands_without_reply,
                   pmVars, pollVars, poll_pos, cur, link, histVars>>

\* Faulty variant of YieldsSlot: the poller does not look at the flag.
NeverYields == FALSE

\* if await self.has_non_status_command(): return (lines 442-444).
YieldsSlot == has_non_status_command

\* Faulty variant of NextCount: the status is due one tick late.
LateNextCount(l) ==
    LET n == status_command_counts[l] + 1
    IN  IF n > STATUS_POKE_PERIODS[l]
        THEN [count |-> 0, due |-> TRUE]
        ELSE [count |-> n, due |-> FALSE]

\* The count of the LLC after this tick, and whether its status is due
\* (lines 447-452).
NextCount(l) ==
    LET n == status_command_counts[l] + 1
    IN  IF n >= STATUS_POKE_PERIODS[l]
        THEN [count |-> 0, due |-> TRUE]
        ELSE [count |-> n, due |-> FALSE]

\* One iteration of the loop of query_status.
PollerIter ==
    /\ pc[Poller] = "iter"
    /\ IF poll_pos > Len(Registered)
       THEN \* the loop is over: the tick ends
            /\ pc' = [pc EXCEPT ![Poller] = "sleep"]
            /\ poll_pos' = 0
            /\ UNCHANGED <<pollVars, has_non_status_command, index_iter,
                           commands_without_reply, cur, lockVars, link,
                           histVars>>
       ELSE LET l == Registered[poll_pos]
                m == STATUS_POKE_PERIODS[l]
            IN  IF YieldsSlot
                THEN \* return immediately
                     /\ pc' = [pc EXCEPT ![Poller] = "sleep"]
                     /\ poll_pos' = 0
                     /\ window' = [k \in LlcNames |-> <<>>]
                     /\ UNCHANGED <<status_command_counts, reportVars,
                                    has_non_status_command, index_iter,
                                    commands_without_reply, cur, lockVars,
                                    link, histVars>>
                ELSE /\ status_command_counts' =
                            [status_command_counts EXCEPT ![l] = NextCount(l).count]
                     /\ IF NextCount(l).due
                        THEN Call(Poller, StatusCommand(l), has_non_status_command,
                                  [window EXCEPT ![l] = Slide(@, "requested", m)])
                        ELSE /\ window' = [window EXCEPT ![l] = Slide(@, "none", m)]
                             /\ poll_pos' = poll_pos + 1
                             /\ UNCHANGED <<has_non_status_command, index_iter,
                                            commands_without_reply, cur,
                                            lockVars, pc, link, histVars,
                                            reportVars>>
    /\ UNCHANGED <<configVars, callVars, lifeVars, pmVars>>

\* request_llc_status (lines 1317-1319): the reply had no key for the LLC,
\* the status command is written again.
PollerRetry ==
    /\ pc[Poller] = "retry"
    /\ Call(Poller, StatusCommand(Registered[poll_pos]), has_non_status_command,
            window)
    /\ UNCHANGED <<configVars, callVars, lifeVars, pmVars, status_command_counts>>

(***************************************************************************)
(* _cancel_periodic_tasks (lines 504-519): run_periodic_tasks is cleared   *)
(* and every task of self.periodic_tasks is cancelled.  The cancellation   *)
(* reaches the poller where it is suspended: asleep or waiting for the     *)
(* lock it ends; in read_json the CancelledError is caught by              *)
(* write_then_read_reply (lines 715-720), which returns                    *)
(* REPLY_DATA_FOR_DISABLED_COMMANDS, and request_llc_status goes on.  The  *)
(* calls of process_command_queue run in tasks of their own                *)
(* (wrap_with_async_task, lines 484-488) and are not cancelled.            *)
(***************************************************************************)
CancelPeriodicTasks ==
    LET hit == "query_status" \in periodic_tasks
        p == pc[Poller]
        swallowed == hit /\ p = "read"
        frees == hit /\ (p = "read" \/ (p = "lock" /\ lock_holder = Poller))
    IN  [pc |-> IF ~hit THEN p ELSE IF swallowed THEN "retry" ELSE "off",
         holder |-> IF frees THEN Release.holder ELSE lock_holder,
         waiters |-> IF frees THEN Release.waiters
                     ELSE IF hit
                     THEN SelectSeq(lock_waiters, LAMBDA u : u # Poller)
                     ELSE lock_waiters,
         alive |-> (task_alive \ periodic_tasks)
                       \cup (IF swallowed THEN {"query_status"} ELSE {}),
         cur |-> IF hit THEN NoCommand ELSE cur[Poller],
         poll_pos |-> IF hit /\ ~swallowed THEN 0 ELSE poll_pos]

(***************************************************************************)
(* connect (lines 341-377) with _start_mock_ctrl (lines 521-538) and       *)
(* _start_periodic_tasks (lines 396-436).  The model has one poller task   *)
(* and one link: connect is taken when no call still reads from the        *)
(* previous link and no poller outside self.periodic_tasks is running.     *)
(***************************************************************************)
Connect ==
    /\ ~connected
    /\ \A t \in Tasks : pc[t] # "read"
    /\ "query_status" \in task_alive => "query_status" \in periodic_tasks
    /\ mock_ctrl' = IF simulation_mode = SIMULATION_WITH_MOCK_CONTROLLER
                    THEN TRUE ELSE mock_ctrl
    /\ client' = "open"
    /\ link' = <<>>
    /\ lock_holder' = CancelPeriodicTasks.holder
    /\ lock_waiters' = CancelPeriodicTasks.waiters
    /\ cur' = [cur EXCEPT ![Poller] = NoCommand]
    /\ status_command_counts' =
           [l \in DOMAIN status_command_counts \cup telemetry_callbacks |->
               IF l \in telemetry_callbacks THEN 0 ELSE status_command_counts[l]]
    /\ window' = [k \in LlcNames |-> <<>>]
    /\ run_periodic_tasks' = TRUE
    /\ periodic_tasks' = PeriodicTaskNames
    /\ task_alive' = PeriodicTaskNames
    /\ pc' = [pc EXCEPT ![Poller] = "sleep"]
    /\ poll_pos' = 0
    /\ after_disconnect' = FALSE
    /\ UNCHANGED <<configVars, callVars, has_non_status_command, index_iter,
                   commands_without_reply, pmVars, histVars, reportVars>>

(***************************************************************************)
(* disconnect (lines 379-394) with _stop_mock_ctrl (lines 540-546).        *)
(***************************************************************************)
Disconnect ==
    /\ IF connected
       THEN /\ run_periodic_tasks' = FALSE
            /\ periodic_tasks' = {}
            /\ task_alive' = CancelPeriodicTasks.alive
            /\ pc' = [pc EXCEPT ![Poller] = CancelPeriodicTasks.pc]
            /\ cur' = [cur EXCEPT ![Poller] = CancelPeriodicTasks.cur]
            /\ poll_pos' = CancelPeriodicTasks.poll_pos
            /\ lock_holder' = CancelPeriodicTasks.holder
            /\ lock_waiters' = CancelPeriodicTasks.waiters
            /\ client' = None
            /\ link' = <<>>
       ELSE UNCHANGED <<run_periodic_tasks, periodic_tasks, task_alive, pc, cur,
                        poll_pos, lockVars, client, link>>
    /\ mock_ctrl' = IF simulation_mode = SIMULATION_WITH_MOCK_CONTROLLER
                    THEN FALSE ELSE mock_ctrl
    /\ after_disconnect' = TRUE
    /\ UNCHANGED <<configVars, callVars, has_non_status_command, index_iter,
                   commands_without_reply, pmVars, pollVars, histVars>>

(***************************************************************************)
(* The bridge as constructed by __init__ (lines 231-335) with a simulation *)
(* mode of modes and callbacks for one of the sets of LLCs in callbacks.   *)
(***************************************************************************)
ConstructedBlocking(modes, callbacks, llcs, blocking) ==
    /\ simulation_mode \in modes
    /\ telemetry_callbacks \in callbacks
    /\ blocking_callbacks \in blocking
    /\ conversion = NoConversion
    /\ thcs = ThcsInit
    /\ polling = PollingInit
    /\ lwscs = LwscsInit
    /\ watchdog = WatchdogInit
    /\ client = None
    /\ mock_ctrl = FALSE
    /\ run_periodic_tasks = FALSE
    /\ periodic_tasks = {}
    /\ task_alive = {}
    /\ lock_holder = None
    /\ lock_waiters = <<>>
    /\ has_non_status_command = FALSE
    /\ index_iter = 1
    /\ commands_without_reply = <<>>
    /\ power_management_mode = NO_POWER_MANAGEMENT
    /\ handler_mode = NO_POWER_MANAGEMENT
    /\ command_queue = <<>>
    /\ status_command_counts = <<>>
    /\ pc = [t \in Tasks |-> IF t = Poller THEN "off" ELSE "idle"]
    /\ cur = [t \in Tasks |-> NoCommand]
    /\ poll_pos = 0
    /\ link = <<>>
    /\ written = {}
    /\ id_log = <<>>
    /\ status_ahead = [t \in Tasks |-> 0]
    /\ silent_failure = FALSE
    /\ window = [l \in LlcNames |-> <<>>]
    /\ after_disconnect = FALSE
    /\ lower_level_status = <<>>
    /\ communication_error_report = <<>>
    /\ last_callback = <<>>
    /\ llc_power = [l \in LlcNames |-> 0]
    /\ llc_under_test \in llcs
    /\ current_tai = 0
    /\ amcs = AmcsInit
    /\ apscs = ApscsInit
    /\ lcs = LcsInit
    /\ plant_call = NoPlantCall
    /\ ctrl = CtrlInit
    /\ dispatched = NothingDispatched
    /\ exit_fault_run = [mask |-> {}, done |-> <<>>, current |-> <<>>,
                         todo |-> <<>>]
    /\ schedule_order = <<>>
    /\ pm_call = [op |-> None, mode |-> None, draw |-> <<>>, order |-> <<>>,
                  head |-> <<>>, command |-> <<>>, error |-> FALSE]

\* Every telemetry callback returns.
ConstructedWith(modes, callbacks, llcs) ==
    ConstructedBlocking(modes, callbacks, llcs, {{}})

\* The bridge on its own: no method of a mock component is called directly.
Constructed(modes, callbacks) == ConstructedWith(modes, callbacks, {None})

(***************************************************************************)
(* Specifications.                                                         *)
(***************************************************************************)
\* The link under load: two callers of move_az and the status poller.
Init == Constructed({SIMULATION_WITH_MOCK_CONTROLLER}, CallbackSets)

Next ==
    \/ Connect
    \/ PeerClose
    \/ \E t \in OpTasks : MoveAz(t)
    \/ PollerWake
    \/ PollerIter
    \/ PollerRetry
    \/ \E t \in Tasks : Locked(t)
    \/ \E t \in Tasks : ReadReply(t)
    \/ \E t \in Tasks : ReadFails(t)
    \/ ControllerDrop

Spec == Init /\ [][Next]_vars

NextLife ==
    \/ Connect
    \/ Disconnect
    \/ PeerClose
    \/ PollerWake
    \/ PollerIter
    \/ PollerRetry
    \/ PollerStop
    \/ ReadReply(Poller)
    \/ ReadFails(Poller)
    \/ ControllerDrop

\* The life cycle of the connection, with the status poller as the only
\* sender.
InitLife == Constructed(SimulationModes, CallbackSets)

SpecLife == InitLife /\ [][NextLife]_vars

\* Power management: one caller of move_az and of the power-managed
\* operations and the command-queue task, on a bridge in normal operations
\* (some commands are disabled for commissioning) without telemetry callbacks.
InitPower == Constructed({NORMAL_OPERATIONS}, {{}})

NextPower ==
    \/ Connect
    \/ PeerClose
    \/ MoveAz(OpOrder[1])
    \/ \E c \in POWER_MANAGEMENT_COMMANDS :
          ScheduleCommandIfPowerManagementActive(OpOrder[1], c)
    \/ \E m \in RequestedModes : SetPowerManagementMode(m)
    \/ ProcessCommandQueue
    \/ \E t \in Tasks : Locked(t)
    \/ \E t \in Tasks : ReadReply(t)
    \/ \E t \in Tasks : ReadFails(t)
    \/ ControllerDrop

SpecPower == InitPower /\ [][NextPower]_vars

\* The power management handler on its own: commands are scheduled and
\* taken out under every mode and every current power draw.  The mode is
\* assigned while the queue is empty, as the unit tests do and as
\* set_power_management_mode leaves the queue.
InitHandler == Constructed({SIMULATION_WITH_MOCK_CONTROLLER}, {{}})

NextHandler ==
    \/ \E m \in PowerManagementMode : SetHandlerMode(m)
    \/ \E sc \in HandlerCommands : HandlerScheduleCommand(sc)
    \/ \E draw \in PowerDraws : HandlerGetNextCommand(draw)

SpecHandler == InitHandler /\ [][NextHandler]_vars

\* The light/wind screen starts or stops to move: the power it draws, as
\* its next status will report it, changes.
ScreenPowerChanges ==
    /\ llc_power' = [llc_power EXCEPT !["LWSCS"] =
                        IF @ = 0 THEN LWS_POWER_DRAW ELSE 0]
    /\ UNCHANGED <<bridgeVars, mockVars, handler_mode, command_queue,
                   schedule_order, pm_call>>

\* The bridge in EMERGENCY: a caller of open_shutter, the command-queue
\* task and the status poller with a callback for LWSCS, whose power draw
\* changes.
InitEmergency == Constructed({SIMULATION_WITH_MOCK_CONTROLLER}, {{"LWSCS"}})

NextEmergency ==
    \/ Connect
    \/ ScreenPowerChanges
    \/ SetPowerManagementMode(EMERGENCY)
    \/ ScheduleCommandIfPowerManagementActive(OpOrder[1], "openShutter")
    \/ ProcessCommandQueue
    \/ PollerWake
    \/ PollerIter
    \/ \E t \in Tasks : Locked(t)
    \/ \E t \in Tasks : ReadReply(t)

SpecEmergency == InitEmergency /\ [][NextEmergency]_vars

\* exit_fault: a caller of exit_fault and a caller of move_az on a link
\* where replies can be late.
InitFault == Constructed({SIMULATION_WITH_MOCK_CONTROLLER}, {{}})

NextFault ==
    \/ Connect
    \/ \E m \in Masks : ExitFault(OpOrder[1], m)
    \/ ExitFaultNext(OpOrder[1])
    \/ MoveAz(OpOrder[2])
    \/ \E t \in OpTasks : Locked(t)
    \/ \E t \in OpTasks : ReadReply(t)
    \/ \E t \in OpTasks : ReadFails(t)

SpecFault == InitFault /\ [][NextFault]_vars

\* The mock components with drives: one of them, with calls of its fault
\* methods, its motion command and its status evaluation while the clock
\* moves on.
InitPlant == ConstructedWith({SIMULATION_WITH_MOCK_CONTROLLER}, {{}}, DriveLlcs)

NextPlant ==
    \/ \E s \in DriveLlcs : PlantSetFault(s)
    \/ \E s \in DriveLlcs : \E ones \in BOOLEAN : PlantResetDrives(s, ones)
    \/ \E s \in DriveLlcs : PlantExitFault(s)
    \/ \E s \in DriveLlcs : PlantMove(s)
    \/ \E s \in DriveLlcs : PlantDetermineStatus(s)
    \/ PlantTick

SpecPlant == InitPlant /\ [][NextPlant]_vars

\* Replies with several response codes: a caller of move_az and the status
\* poller on a link where replies can be refused, late or missing.
ReportedCodes == {OK, INCORRECT_STATE, ROTATING_PART_NOT_RECEIVED}

ReportTasks == {OpOrder[1], Poller}

InitReport == Constructed({SIMULATION_WITH_MOCK_CONTROLLER}, {{"AMCS", "LWSCS"}})

NextReport ==
    \/ Connect
    \/ MoveAz(OpOrder[1])
    \/ PollerWake
    \/ PollerIter
    \/ PollerRetry
    \/ \E t \in ReportTasks : Locked(t)
    \/ \E t \in ReportTasks : \E r \in ReportedCodes : ReadReplyWith(t, r)
    \/ \E t \in ReportTasks : ReadFails(t)

SpecReport == InitReport /\ [][NextReport]_vars

\* Telemetry callbacks that do not return: the status poller with
\* callbacks for AMCS and LWSCS, of which one or none blocks, and a caller
\* of move_az.
BlockingSets == {{}, {"AMCS"}, {"LWSCS"}}

InitBlocking ==
    ConstructedBlocking({SIMULATION_WITH_MOCK_CONTROLLER}, {{"AMCS", "LWSCS"}},
                        {None}, BlockingSets)

NextBlocking ==
    \/ Connect
    \/ MoveAz(OpOrder[1])
    \/ PollerWake
    \/ PollerIter
    \/ PollerRetry
    \/ \E t \in ReportTasks : Locked(t)
    \/ \E t \in ReportTasks : ReadReply(t)
    \/ \E t \in ReportTasks : ReadFails(t)

SpecBlocking == InitBlocking /\ [][NextBlocking]_vars

\* The mock controller: commands for one of the components with drives
\* are read and dispatched, with and without a communication error and a
\* network interruption, while faults are set.
InitDispatch == ConstructedWith({SIMULATION_WITH_MOCK_CONTROLLER}, {{}}, DriveLlcs)

NextDispatch ==
    \/ DispatchCommand
    \/ DispatchMalformed
    \/ \E b \in BOOLEAN : SetNetworkInterruption(b)
    \/ \E b \in BOOLEAN : SetCommunicationError(b)
    \/ DispatchSetFault

SpecDispatch == InitDispatch /\ [][NextDispatch]_vars

\* The conversions of angles: move_az for every target position, and the
\* status of AMCS and LWSCS made into telemetry.
InitAzimuth == Constructed({SIMULATION_WITH_MOCK_CONTROLLER}, {{}})

NextAzimuth ==
    \/ \E position \in SkyPositions : \E velocity \in SkyVelocities :
          ConvertMoveAz(position, velocity)
    \/ \E llc_name \in {"AMCS", "LWSCS"} : \E actual \in ReportedAngles :
          ConvertStatus(llc_name, actual)

SpecAzimuth == InitAzimuth /\ [][NextAzimuth]_vars

\* Configurations: settings for known and unknown targets, with values
\* below 0, within the limits of both components, above a limit of AMCS
\* only, and above the limits of both; sent by one caller while the status
\* poller runs.
ConfigSystems == {"AMCS", "LWSCS", "ApSCS"}
ConfigSetting ==
    {[target |-> "jmax", setting |-> -1], [target |-> "jmax", setting |-> 500],
     [target |-> "jmax", setting |-> 3200], [target |-> "jmax", setting |-> 4000],
     [target |-> "dmax", setting |-> 500]}
ConfigSettings ==
    {<<c>> : c \in ConfigSetting} \cup
    {<<[target |-> "vmax", setting |-> 500], c>> :
        c \in {[target |-> "jmax", setting |-> 500],
               [target |-> "jmax", setting |-> 3200],
               [target |-> "dmax", setting |-> 500]}}

ConfigTasks == {OpOrder[1], Poller}

InitConfig == Constructed({SIMULATION_WITH_MOCK_CONTROLLER}, {{"AMCS"}})

NextConfig ==
    \/ Connect
    \/ \E system \in ConfigSystems : \E settings \in ConfigSettings :
          ConfigLlcs(OpOrder[1], system, settings)
    \/ PollerWake
    \/ PollerIter
    \/ PollerRetry
    \/ \E t \in ConfigTasks : Locked(t)
    \/ \E t \in ConfigTasks : ReadReply(t)
    \/ \E t \in ConfigTasks : ReadFails(t)

SpecConfig == InitConfig /\ [][NextConfig]_vars

\* The motion of the dome: moveAz to targets on both sides of the start,
\* stopping there or crawling on in either direction, with the status
\* determined while the clock moves on in steps shorter than a move.
MoveTargets == {0, 10 * 17453, 350 * 17453}
CrawlVelocities == {0, 1745, -1745}

InitMove == ConstructedWith({SIMULATION_WITH_MOCK_CONTROLLER}, {{}}, {"AMCS"})

NextMove ==
    \/ \E position \in MoveTargets : \E velocity \in CrawlVelocities :
          PlantMoveAz(position, velocity)
    \/ PlantDetermineStatus("AMCS")
    \/ PlantAdvance

SpecMove == InitMove /\ [][NextMove]_vars

\* The louvers: setLouvers for louvers at rest, with the status determined
\* again and again while the clock moves on.  A command is given while
\* the clock can still move on, so that its motion can end: one step of
\* the clock is enough for the ways of LouverCommands.
LouverCommands ==
    {[l \in Louvers |-> 10], [l \in Louvers |-> 0],
     [l \in Louvers |-> IF l \in {0, LCS_NUM_LOUVERS - 1} THEN 5 ELSE -1],
     [l \in Louvers |-> IF l = 1 THEN 0 ELSE IF l = 2 THEN 10 ELSE -1]}

\* No louver is in a motion or has one ahead.
LouversAtRest ==
    \A l \in Louvers :
        lcs.current_state[l] = STATIONARY /\ lcs.start_state[l] = STATIONARY

InitLouvers == ConstructedWith({SIMULATION_WITH_MOCK_CONTROLLER}, {{}}, {"LCS"})

NextLouvers ==
    \/ \E position \in LouverCommands :
          /\ LouversAtRest
          /\ current_tai + MoveStep <= MaxTai
          /\ PlantSetLouvers(position)
    \/ PlantDetermineStatus("LCS")
    \/ PlantAdvance

\* The status of the LCS is requested periodically and the clock moves on.
SpecLouvers ==
    /\ InitLouvers
    /\ [][NextLouvers]_vars
    /\ WF_vars(PlantDetermineStatus("LCS"))
    /\ WF_vars(PlantAdvance)

\* The louvers with positions outside [0, 100]: setLouvers for louvers at
\* rest with positions above 100 and below -1 beside positions within the
\* limits and -1.
LouverRangeCommands ==
    {[l \in Louvers |-> 10],
     [l \in Louvers |-> IF l = 0 THEN 150 ELSE 50],
     [l \in Louvers |-> IF l = 1 THEN -5 ELSE -1],
     [l \in Louvers |-> IF l = 2 THEN 101 ELSE IF l = 3 THEN 20 ELSE -1]}

InitLouverRange ==
    ConstructedWith({SIMULATION_WITH_MOCK_CONTROLLER}, {{}}, {"LCS"})

NextLouverRange ==
    \/ \E position \in LouverRangeCommands :
          LouversAtRest /\ PlantSetLouvers(position)
    \/ PlantDetermineStatus("LCS")
    \/ PlantAdvance

SpecLouverRange == InitLouverRange /\ [][NextLouverRange]_vars

\* The thermal control: cooling started and stopped at any time, the
\* temperature set, and the state evaluated, while the clock moves on.
ThcsTemperatures == {-5, 20}

InitCooling == Constructed({SIMULATION_WITH_MOCK_CONTROLLER}, {{}})

NextCooling ==
    \/ ThcsStartCooling
    \/ ThcsStopCooling
    \/ \E temperature \in ThcsTemperatures : ThcsSetTemperature(temperature)
    \/ ThcsDetermineStatus
    \/ PlantAdvance

SpecCooling == InitCooling /\ [][NextCooling]_vars

\* The thermal control with exitFaultThermal as well.
NextThermal ==
    \/ NextCooling
    \/ ThcsExitFault

SpecThermal == InitCooling /\ [][NextThermal]_vars

\* The reply watchdog over commands sent at several times.
InitWatchdog == Constructed({SIMULATION_WITH_MOCK_CONTROLLER}, {{}})

NextWatchdog ==
    \/ WatchdogWrite
    \/ \E command_id \in 1..MaxWatched : WatchdogReply(command_id)
    \/ \E step \in WatchSteps : WatchdogAdvance(step)
    \/ WatchdogCheck

SpecWatchdog == InitWatchdog /\ [][NextWatchdog]_vars

\* Faults of the louvers and of the windscreen, the drives reset or not,
\* and the commands exitFaultEl and exitFaultLouvers at any time.
InitExitFault == ConstructedWith({SIMULATION_WITH_MOCK_CONTROLLER}, {{}}, {"LCS"})

NextExitFault ==
    \/ \E d \in LcsDriveLists :
          PlantCall("LCS", "set_fault", lcs_set_fault(lcs, current_tai, d),
                    FALSE)
    \/ \E d \in LcsDriveLists :
          PlantCall("LCS", "reset_drives", lcs_reset_drives_louvers(lcs, d),
                    IsAllOnes(d))
    \/ LwscsSetFault
    \/ LwscsResetDrives
    \/ ExitFaultEl
    \/ ExitFaultLouvers
    \/ PlantAdvance

SpecExitFault == InitExitFault /\ [][NextExitFault]_vars

\* The louvers stopped on their way: setLouvers for louvers at rest, to
\* positions one and two steps of the clock away, stopLouvers at any time,
\* the status evaluated periodically and the clock moving on.
LouverWays == {[l \in Louvers |-> 10], [l \in Louvers |-> 20]}

NextLouverStop ==
    \/ \E position \in LouverWays :
          /\ LouversAtRest
          /\ current_tai + 2 * MoveStep <= MaxTai
          /\ PlantSetLouvers(position)
    \/ PlantStopLouvers
    \/ PlantDetermineStatus("LCS")
    \/ PlantAdvance

SpecLouverStop ==
    /\ InitLouvers
    /\ [][NextLouverStop]_vars
    /\ WF_vars(PlantDetermineStatus("LCS"))
    /\ WF_vars(PlantAdvance)

\* A louver has a motion ahead or is in one.
LouverCommanded == \E l \in Louvers : lcs.start_state[l] \in {OPENING, CLOSING}

\* The louvers sent to Stationary on their way or after a stop.
NextLouverStationary ==
    \/ NextLouverStop
    \/ PlantGoStationaryLouvers

SpecLouverStationary ==
    /\ InitLouvers
    /\ [][NextLouverStationary]_vars
    /\ WF_vars(PlantDetermineStatus("LCS"))
    /\ WF_vars(PlantAdvance)

\* The louvers in fault: a first setLouvers, set_fault for louvers that are
\* not in fault, the drives reset, exit_fault, setLouvers for louvers in
\* fault or recovered from it, the status evaluated periodically and the
\* clock moving on.
LouversInFault == \E l \in Louvers : lcs.current_state[l] = ERROR

LouverFaultDriveLists ==
    {OnesAt(LCS_NUM_LOUVERS * LCS_NUM_MOTORS_PER_LOUVER, S) :
        S \in {{}, LcsDrives}}

NextLouverFault ==
    \/ \E d \in LouverFaultDriveLists :
          /\ ~LouversInFault
          /\ PlantCall("LCS", "set_fault",
                       lcs_set_fault(lcs, current_tai, d), FALSE)
    \/ \E d \in LouverFaultDriveLists :
          PlantCall("LCS", "reset_drives",
                    lcs_reset_drives_louvers(lcs, d), IsAllOnes(d))
    \/ PlantExitFault("LCS")
    \/ \E position \in LouverWays :
          /\ \A l \in Louvers : lcs.current_state[l] \in {STATIONARY, ERROR}
          /\ ~LouverCommanded
          /\ current_tai = 0 \/ plant_call.phase = "exited"
          /\ current_tai + 2 * MoveStep <= MaxTai
          /\ PlantSetLouvers(position)
    \/ PlantDetermineStatus("LCS")
    \/ PlantAdvance

SpecLouverFault ==
    /\ InitLouvers
    /\ [][NextLouverFault]_vars
    /\ WF_vars(PlantDetermineStatus("LCS"))
    /\ WF_vars(PlantAdvance)

\* The status polling with callbacks for several sets of LlcNames; any
\* status method may fail.
PollingCallbackSets ==
    {{"AMCS"}, {"AMCS", "ThCS"}, {"ApSCS", "CBCS"}, {"CSCS", "LCS", "MonCS"},
     {"AMCS", "OBC"},
     {"LWSCS", "OBC", "RAD"}, {"OBC"}}

InitPolling == Constructed({SIMULATION_WITH_MOCK_CONTROLLER}, PollingCallbackSets)

NextPolling ==
    \/ StartPeriodicTasks
    \/ QueryStatus
    \/ \E busy \in BOOLEAN, raises \in BOOLEAN : QueryStatusIter(busy, raises)

SpecPolling == InitPolling /\ [][NextPolling]_vars

(***************************************************************************)
(* Properties.                                                             *)
(***************************************************************************)
\* The tasks that send non-status commands.
Senders == Tasks \ {Poller}

\* C1: command transmissions never overlap: at most one task is between
\* the write of its command and the end of its reply read, so no command
\* is written to the link while another call waits for its reply.
C1_TransmissionsNeverOverlap ==
    Cardinality({t \in Tasks : pc[t] = "read"}) <= 1

\* A call waits for its reply while another task wants to send.
C1_Witness ==
    \E t, u \in Tasks : pc[t] = "read" /\ pc[u] = "lock"

\* C2: commands_without_reply holds exactly the commands that were written
\* to the link and whose reply has not been correlated: every key of the
\* table is the commandId of a command that was written.
C2_TableHoldsTransmittedCommands ==
    DOMAIN commands_without_reply = written

\* C3: the reply that ends the write_then_read_reply call of a command
\* carries the commandId of that command.
C3_ReplyCarriesOwnCommandId ==
    [][\A t \in Tasks :
          (/\ pc[t] = "read"
           /\ pc'[t] # "read"
           /\ client' = client
           /\ link # <<>>
           /\ link' = Tail(link)) => Head(link).id = cur[t].id]_vars

\* C4: every commandId is strictly greater than all commandIds assigned
\* before it, so none is used twice.
C4_CommandIdsIncrease ==
    \A i, j \in 1..Len(id_log) : i < j => id_log[i] < id_log[j]

\* Three commands have got their ids, two of them in calls that overlap.
C4_Witness ==
    /\ Len(id_log) >= 3
    /\ \E t, u \in Tasks : t # u /\ cur[t].id # 0 /\ cur[u].id # 0

\* C5: after disconnect() has returned the bridge has no client, no
\* periodic task runs and the mock controller is stopped.
C5_NothingLeftAfterDisconnect ==
    after_disconnect => /\ client = None
                        /\ ~connected
                        /\ task_alive = {}
                        /\ ~mock_ctrl

\* A command gets its commandId in this step, and it is a status command.
StatusRequestStarts ==
    /\ index_iter' = index_iter + 1
    /\ IsStatus(commands_without_reply'[index_iter])

\* C6 as stated: while a non-status operation has set the flag and its
\* command is not yet written, the poller starts no status request, and at
\* most one status command is written ahead of the command.
C6_NoStatusRequestWhileOperationWaits ==
    [][/\ (\E u \in Senders : pc[u] = "lock") => ~StatusRequestStarts
       /\ \A u \in Senders : status_ahead'[u] <= 1]_vars

\* C6 as the code has it: a tick of the poller starts no status request
\* while hasNonStatusCommand is set, and at most one status command is
\* written to the link between the moment an operation sets the flag and
\* the write of its own command.
C6_PollerYieldsToFlag ==
    [][/\ (pc[Poller] = "iter" /\ has_non_status_command) => ~StatusRequestStarts
       /\ \A u \in Senders : status_ahead'[u] <= 1]_vars

\* An operation waits for the link with the flag set, one status command
\* has been written ahead of it, and the poller has ended a tick early.
C6_Witness ==
    /\ \E u \in Senders : pc[u] = "lock" /\ status_ahead[u] = 1
    /\ has_non_status_command

\* C7: when no non-status operation is pending, has_non_status_command()
\* is False.
C7_FlagClearWhenNothingPending ==
    (\A t \in Senders : pc[t] \notin {"lock", "read"}) => ~has_non_status_command

\* Nothing is pending after an operation has raised on a link that the
\* peer closed; it was not the first command.
C7_Witness ==
    /\ \A t \in Senders : pc[t] \notin {"lock", "read"}
    /\ pc[OpOrder[1]] = "raised"
    /\ client = "closed"
    /\ index_iter > 2

\* C8: for every LLC with a callback, in a run of ticks that the flag did
\* not cut short, every m consecutive ticks hold exactly one status request
\* and the callback is awaited once for it (m is the LLC's multiplier); the
\* count of the LLC stays in 0..m-1.
C8_OneStatusPerPeriod ==
    \A l \in DOMAIN status_command_counts :
        LET m == STATUS_POKE_PERIODS[l]
            w == window[l]
        IN  /\ status_command_counts[l] \in 0..(m - 1)
            /\ Len(w) = m => Cardinality({i \in 1..m : w[i] # "none"}) = 1
            /\ \A i \in 1..Len(w) :
                  /\ w[i] # "called_twice"
                  /\ w[i] = "requested" =>
                        i = Len(w) /\ pc[Poller] \in {"lock", "read", "retry"}

\* Five clean ticks in a row: LWSCS was asked once and its callback called.
C8_Witness ==
    /\ "LWSCS" \in DOMAIN status_command_counts
    /\ Len(window["LWSCS"]) = STATUS_POKE_PERIODS["LWSCS"]
    /\ \E i \in 1..Len(window["LWSCS"]) : window["LWSCS"][i] = "called"
    /\ Len(window["AMCS"]) = STATUS_POKE_PERIODS["AMCS"]

\* C9: every failure of the command of an operation raises in the
\* operation that asked for the command.
C9_EveryFailureRaises == ~silent_failure

\* C10 as stated: in NO_POWER_MANAGEMENT no command is queued, the
\* command-queue task sends nothing, and every power-managed operation that
\* returns has written its command to the link.
C10_EveryCommandTransmittedInCall ==
    power_management_mode = NO_POWER_MANAGEMENT =>
        /\ command_queue = <<>>
        /\ pc[Pcq] = "idle"
        /\ \A t \in OpTasks :
              (pc[t] = "returned" /\ cur[t].command \in POWER_MANAGEMENT_COMMANDS)
                  => cur[t].sent

\* C10 as the code has it: in NO_POWER_MANAGEMENT no command is queued,
\* the command-queue task sends nothing, and every power-managed operation
\* that returns has written its command to the link unless the command is
\* disabled for commissioning, which is answered without the link.
C10_NoQueueWithoutPowerManagement ==
    power_management_mode = NO_POWER_MANAGEMENT =>
        /\ command_queue = <<>>
        /\ pc[Pcq] = "idle"
        /\ \A t \in OpTasks :
              (pc[t] = "returned" /\ cur[t].command \in POWER_MANAGEMENT_COMMANDS)
                  => (cur[t].sent \/ cur[t].command \in DisabledCommands)

\* Without power management open_shutter has returned after writing its
\* command, with the periodic tasks running.
C10_Witness ==
    /\ power_management_mode = NO_POWER_MANAGEMENT
    /\ "process_command_queue" \in task_alive
    /\ \E t \in OpTasks :
          pc[t] = "returned" /\ cur[t].command = "openShutter" /\ cur[t].sent


\* The entries of the queue.
QueueEntries == {command_queue[i] : i \in 1..Len(command_queue)}

\* The last call of the handler was get_next_command in the mode, and it
\* took an entry out of the queue.
TookHeadIn(mode) ==
    /\ pm_call.op = "get_next_command"
    /\ pm_call.mode = mode
    /\ pm_call.head # <<>>

\* The power left for a command under the draw of a call of
\* get_next_command.
BudgetLeft(draw) ==
    CONTINUOUS_SLIP_RING_POWER_CAPACITY - CONTINUOUS_ELECTRONICS_POWER_DRAW
        - (draw["AMCS"] + draw["LCS"] + draw["LWSCS"])

\* C11: in OPERATIONS get_next_command hands out a power-drawing command
\* only if its expected draw is at most the capacity minus the electronics
\* minus the sum of the current draws; a command that does not fit is not
\* handed out, nothing is returned and it is still in the queue; a stop
\* command is handed out whatever the draw.
C11_OperationsAdmitsWithinBudget ==
    TookHeadIn(OPERATIONS) =>
        LET entry == pm_call.head[1]
            sc == entry.scheduled_command
        IN  IF sc.command \in StopCommandNames
            THEN pm_call.command = <<sc>>
            ELSE /\ pm_call.command # <<>> =>
                       /\ pm_call.command = <<sc>>
                       /\ PowerRequired(sc) <= BudgetLeft(pm_call.draw)
                 /\ PowerRequired(sc) > BudgetLeft(pm_call.draw) =>
                       /\ pm_call.command = <<>>
                       /\ entry \in QueueEntries


\* The power draw of LWSCS in the latest status stored for it.
LatestScreenDraw ==
    IF "LWSCS" \in DOMAIN lower_level_status
    THEN lower_level_status["LWSCS"].powerDraw
    ELSE 0

\* The command-queue task takes the command out of the queue for
\* transmission in this step.
QueueTaskTransmits(c) ==
    /\ pc[Pcq] = "idle"
    /\ pc'[Pcq] # "idle"
    /\ cur'[Pcq].command = c

\* C12: while the bridge is in EMERGENCY and the latest status of LWSCS
\* reports a power draw other than zero, no step of the command-queue task
\* takes openShutter out of the queue and transmits it.
C12_NoOpenShutterWhileScreenDraws ==
    [][(power_management_mode = EMERGENCY /\ LatestScreenDraw > 0)
           => ~QueueTaskTransmits("openShutter")]_vars


\* The commands of the entries of the queue.
QueuedCommands == {e.scheduled_command.command : e \in QueueEntries}

\* The command of the entry that leaves the queue next.
NextToLeave == heappop(command_queue).item.scheduled_command.command

\* C13: in EMERGENCY, when get_next_command takes closeShutter while LWSCS
\* draws power, closeShutter is not handed out, it is in the queue again
\* with stopEl ahead of it; closeShutter is handed out only with an LWSCS
\* draw of zero; and whenever stopEl and closeShutter are both queued,
\* stopEl leaves the queue first.
C13_EmergencyCloseShutterAfterStopEl ==
    /\ (/\ TookHeadIn(EMERGENCY)
        /\ pm_call.head[1].scheduled_command.command = "closeShutter"
        /\ pm_call.draw["LWSCS"] > 0)
           => /\ pm_call.command = <<>>
              /\ pm_call.head[1] \in QueueEntries
              /\ "stopEl" \in QueuedCommands
    /\ (/\ handler_mode = EMERGENCY
        /\ {"stopEl", "closeShutter"} \subseteq QueuedCommands)
           => NextToLeave = "stopEl"


ScheduledWithPriorityOf(e) ==
    SelectSeq(pm_call.order, LAMBDA x : x.priority = e.priority)

\* C15: the entry that get_next_command takes out of the queue is the one
\* scheduled first among the queued entries of its priority, whatever the
\* command names and parameters.
C15_EqualPriorityLeavesInOrder ==
    (pm_call.op = "get_next_command" /\ pm_call.head # <<>>) =>
        Head(ScheduledWithPriorityOf(pm_call.head[1])) = pm_call.head[1]


\* The commands that the claim expects of exit_fault for one subsystem.
ExpectedExitFaultOf(s) ==
    IF s = "AMCS"
    THEN <<[command |-> "resetDrivesAz", reset |-> <<1, 1, 1, 1, 1>>],
           [command |-> "exitFaultAz", reset |-> <<>>]>>
    ELSE IF s = "APSCS"
    THEN <<[command |-> "resetDrivesShutter", reset |-> <<1, 1, 1, 1>>],
           [command |-> "exitFaultShutter", reset |-> <<>>]>>
    ELSE IF s = "LCS" THEN <<[command |-> "exitFaultLouvers", reset |-> <<>>]>>
    ELSE IF s = "LWSCS" THEN <<[command |-> "exitFaultEl", reset |-> <<>>]>>
    ELSE IF s = "THCS" THEN <<[command |-> "exitFaultThermal", reset |-> <<>>]>>
    ELSE <<>>

\* The commands that the claim expects of exit_fault(mask), for the
\* subsystems from position i on in the order of their ids.
RECURSIVE ExpectedExitFault(_, _)
ExpectedExitFault(mask, i) ==
    IF i > Len(SubSystemIds) THEN <<>>
    ELSE (IF SubSystemIds[i] \in mask
          THEN ExpectedExitFaultOf(SubSystemIds[i]) ELSE <<>>)
         \o ExpectedExitFault(mask, i + 1)

\* The caller of exit_fault.
FaultCaller == OpOrder[1]

\* The commands that the running or last exit_fault call has written to
\* the link, in order.
TransmittedByExitFault ==
    [i \in 1..Len(exit_fault_run.done) |-> exit_fault_run.done[i].command]
        \o (IF exit_fault_run.current # <<>> /\ cur[FaultCaller].sent
            THEN exit_fault_run.current ELSE <<>>)

C17_ExitFaultNeedsResetDrives ==
    [][\A s \in DriveLlcs :
          /\ (PlantExitFault(s) /\ AnyDriveFlag(s))
                 => /\ plant_call'.raised
                    /\ PlantState(s)' = PlantState(s)
          /\ PlantResetDrives(s, TRUE) => ~AnyDriveFlag(s)'
          /\ (PlantExitFault(s) /\ ~AnyDriveFlag(s))
                 => /\ ~plant_call'.raised
                    /\ PlantState(s)'.position_actual
                           = PlantState(s).position_actual]_vars

\* The louvers have moved, were set in fault with a drive flag set, were
\* refused an exit_fault, had their drives reset with all ones, and the
\* exit_fault after that has succeeded.
C17_Witness ==
    /\ llc_under_test = "LCS"
    /\ plant_call.method = "exit_fault"
    /\ plant_call.phase = "exited"
    /\ \E l \in Louvers : lcs.position_actual[l] # 0

\* The component s is in Error: its state, or the state of each of its
\* shutters or louvers, is ERROR.
InError(s) ==
    IF s = "AMCS" THEN amcs.current_state = ERROR
    ELSE IF s = "APSCS" THEN \A sh \in Shutters : apscs.current_state[sh] = ERROR
    ELSE \A l \in Louvers : lcs.current_state[l] = ERROR

\* C18 as stated: a component with drives is in Error if and only if at
\* least one of its drive flags is set.
C18_ErrorIffDriveErrored ==
    \A s \in DriveLlcs : InError(s) <=> AnyDriveFlag(s)

\* C18, amended: a component with drives of which at least one drive flag
\* is set is in Error, after any sequence of set_fault, reset_drives,
\* exit_fault, motion commands and status evaluations.
C18_DriveErroredImpliesError ==
    \A s \in DriveLlcs : AnyDriveFlag(s) => InError(s)

\* The louvers are in Error with a drive flag set after an exit_fault was
\* refused.
C18_Witness ==
    /\ llc_under_test = "LCS"
    /\ plant_call.method = "exit_fault"
    /\ plant_call.raised
    /\ AnyDriveFlag("LCS")
    /\ InError("LCS")

\* C19: when the read of the reply to the command of an operation times
\* out, the operation raises, the communication error report names that
\* command (with TimeoutError), the entry of the command stays in
\* commands_without_reply, and the caller no longer holds the
\* communication lock.
C19_TimeoutRaisesAndReports ==
    [][\A t \in OpTasks :
          (ReadFails(t) /\ client = "open")
              => /\ pc'[t] = "raised"
                 /\ communication_error_report'
                        = ErrorReport(cur[t].command, "TimeoutError", UNSUPPORTED)
                 /\ cur[t].id \in DOMAIN commands_without_reply'
                 /\ commands_without_reply'[cur[t].id] = cur[t].command
                 /\ lock_holder' # t]_vars

\* move_az has timed out and is reported, its entry is still in
\* commands_without_reply, and a later status command has been written to
\* the link.
C19_Witness ==
    /\ pc[OpOrder[1]] = "raised"
    /\ communication_error_report = ErrorReport("moveAz", "TimeoutError", UNSUPPORTED)
    /\ pc[Poller] = "read"
    /\ cur[Poller].sent
    /\ \E id \in DOMAIN commands_without_reply :
          /\ commands_without_reply[id] = "moveAz"
          /\ id < cur[Poller].id

\* C20: when the status request of an LLC is answered with a response
\* other than OK, the telemetry callback of the LLC is called once, with
\* the error report that names the status command of the LLC and the
\* response code received, and lower_level_status is left as it was.
C20_FailedStatusReportedToCallback ==
    [][\A r \in ReportedCodes \ {OK} :
          ReadReplyWith(Poller, r)
              => LET l == LlcOfStatus(cur[Poller].command)
                 IN  /\ last_callback'
                            = <<CallbackWith(l, <<>>,
                                    ErrorReport(StatusCommand(l), "ValueError", r))>>
                     /\ window'[l] # <<>>
                     /\ window'[l][Len(window'[l])] = "called"
                     /\ lower_level_status' = lower_level_status]_vars

\* The status of AMCS was stored, and the callback of LWSCS got the report
\* of a status command that the rotating part did not receive, without a
\* status of LWSCS being stored.
C20_Witness ==
    /\ last_callback
           = <<CallbackWith("LWSCS", <<>>,
                   ErrorReport("statusLWSCS", "ValueError",
                               ROTATING_PART_NOT_RECEIVED))>>
    /\ "AMCS" \in DOMAIN lower_level_status
    /\ "LWSCS" \notin DOMAIN lower_level_status

\* The status poller calls write_then_read_reply and the write of the
\* command fails because the connection is down.
PollerWriteFails ==
    /\ client = "closed"
    /\ PollerIter \/ PollerRetry
    /\ index_iter' # index_iter

\* C21: when the write of the status command of an LLC fails with a
\* connection error, the telemetry callback of the LLC is called with an
\* error report that names the status command of the LLC and has the
\* response code NOT_CONNECTED.
C21_ConnectionErrorReported ==
    [][PollerWriteFails
          => LET l == Registered[poll_pos]
             IN  /\ last_callback' # <<>>
                 /\ last_callback'[1].llc = l
                 /\ last_callback'[1].report # <<>>
                 /\ last_callback'[1].report[1].command_name = StatusCommand(l)
                 /\ last_callback'[1].report[1].response_code = NOT_CONNECTED]_vars

\* The status poller is suspended in the telemetry callback of LLC x.
InCallbackOf(x) ==
    /\ pc[Poller] = "callback"
    /\ last_callback # <<>>
    /\ last_callback[1].llc = x

\* C22: while the telemetry callback of an LLC does not return, the
\* polling of the other LLCs with a callback is not held up: the loop of
\* query_status can go on to the next LLC or to the next tick.
C22_BlockedCallbackLeavesOthersPolled ==
    \A x \in telemetry_callbacks :
        (/\ InCallbackOf(x)
         /\ run_periodic_tasks
         /\ telemetry_callbacks # {x})
            => ENABLED (PollerIter \/ PollerWake)

\* C23: the mock controller answers every command that has the schema of
\* a command and a commandId with exactly one reply, which carries that
\* commandId, whether the command has a method or not, is a status command
\* or not, and whether its method fails or not; with the network
\* interruption enabled a command with a method gets no reply and the
\* components are left as they were.
C23_OneReplyWithCommandId ==
    [][\A id \in DispatchIds :
          \A cmd \in DispatchCommands(llc_under_test) \cup UnknownCommands :
              \A p \in ParametersOf(cmd) :
                  (/\ dispatched'.command = cmd
                   /\ dispatched'.commandId = <<id>>
                   /\ Dispatch(CommandData(<<id>>, cmd, p, TRUE)))
                      => IF ctrl.enable_network_interruption
                            /\ cmd \in dispatch_dict
                         THEN /\ dispatched'.replies = <<>>
                              /\ UNCHANGED <<amcs, apscs, lcs>>
                         ELSE /\ Len(dispatched'.replies) = 1
                              /\ dispatched'.replies[1].commandId = id
                              /\ ctrl'.command_id = id]_vars

\* A command with commandId 2 whose method raised has got one reply, with
\* commandId 2.
C23_Witness ==
    /\ dispatched.schema_ok
    /\ dispatched.commandId = <<2>>
    /\ dispatched.called # None
    /\ dispatched.raised
    /\ Len(dispatched.replies) = 1
    /\ dispatched.replies[1].commandId = 2

C25_RefusedForStateAnsweredBadState ==
    [][\A id \in DispatchIds :
          \A cmd \in DispatchCommands(llc_under_test) :
              \A p \in ParametersOf(cmd) :
                  (/\ Dispatch(CommandData(<<id>>, cmd, p, TRUE))
                   /\ dispatched'.raised)
                      => dispatched'.replies
                             = <<GenericReply(id, INCORRECT_STATE, "-1")>>]_vars

\* C26: for every target position t in [0, 360) the angle of the dome
\* that move_az sends is (t + 32) mod 360, and the telemetry made of an
\* AMCS status with that commanded position has positionCommanded t; the
\* positions of AMCS telemetry lie in [0, 360); velocities, and the
\* positions of LWSCS, are converted to degrees without the offset.
C26_AzimuthOffsetRoundTrip ==
    /\ conversion.op # None
          => /\ math_degrees(conversion.command.position)
                    = (conversion.position + 32) % 360
             /\ math_degrees(conversion.command.velocity) = conversion.velocity
    /\ conversion.op = "status"
          => LET raw == conversion.llc_status
                 tel == conversion.telemetry
             IN  /\ tel.velocityActual = math_degrees(raw.velocityActual)
                 /\ tel.velocityCommanded = math_degrees(raw.velocityCommanded)
                 /\ IF conversion.llc_name = "AMCS"
                    THEN /\ tel.positionCommanded = conversion.position
                         /\ tel.positionActual \in 0..359
                         /\ tel.positionCommanded \in 0..359
                         /\ (tel.positionActual + 32
                                 - math_degrees(raw.positionActual)) % 360 = 0
                    ELSE /\ tel.positionActual = math_degrees(raw.positionActual)
                         /\ tel.positionCommanded
                                = math_degrees(raw.positionCommanded)

\* move_az(329, 2) has sent the dome angle 1 degree, and the AMCS status
\* with that commanded position and an actual position of 400 degrees gives
\* the telemetry 329 and 8 degrees.
C26_Witness ==
    /\ conversion.op = "status"
    /\ conversion.llc_name = "AMCS"
    /\ conversion.position = 329
    /\ conversion.command.position = math_radians(1)
    /\ conversion.telemetry.positionCommanded = 329
    /\ conversion.telemetry.positionActual = 8

\* A configuration that config_llcs has to reject: for a component other
\* than AMCS and LWSCS, with a field that is not jmax, amax or vmax, or
\* with a value below 0 or above the limit of the component in degrees
\* (AMCS: 3.0, 0.75, 1.5; LWSCS: 3.5, 0.875, 1.75).
IsBadConfiguration(system, settings) ==
    \/ system \notin {"AMCS", "LWSCS"}
    \/ \E i \in DOMAIN settings :
          LET limit == IF system = "AMCS"
                       THEN [jmax |-> 3000, amax |-> 750, vmax |-> 1500]
                       ELSE [jmax |-> 3500, amax |-> 875, vmax |-> 1750]
          IN  \/ settings[i].target \notin {"jmax", "amax", "vmax"}
              \/ settings[i].setting < 0
              \/ settings[i].setting > limit[settings[i].target]

\* C27: config_llcs with a configuration for a component other than AMCS
\* and LWSCS, or with an unknown field or a value out of range, raises
\* without writing a command: the link, the commandId counter, the
\* outstanding table commands_without_reply and the flag of non-status
\* commands are unchanged.
C27_BadConfigurationRejectedLocally ==
    [][\A system \in ConfigSystems : \A settings \in ConfigSettings :
          (IsBadConfiguration(system, settings)
              /\ ConfigLlcs(OpOrder[1], system, settings))
              => /\ pc'[OpOrder[1]] = "raised"
                 /\ link' = link
                 /\ written' = written
                 /\ index_iter' = index_iter
                 /\ id_log' = id_log
                 /\ commands_without_reply' = commands_without_reply
                 /\ has_non_status_command' = has_non_status_command]_vars

\* A configuration has been rejected while the status request of the
\* poller waits for its reply: the flag of non-status commands is not set
\* and the only outstanding command is the status request.
C27_Witness ==
    /\ pc[OpOrder[1]] = "raised"
    /\ cur[OpOrder[1]].command = None
    /\ pc[Poller] = "read"
    /\ ~has_non_status_command
    /\ Cardinality(DOMAIN commands_without_reply) = 1

\* The time since the last moveAz is enough for the way from the position
\* at the command to the target at the maximum velocity.
MoveTimeIsUp(s, tai) ==
    LET d == (s.position_commanded - s.start_position) % AzTurn
        length == IF d > AzTurn - d THEN AzTurn - d ELSE d
    IN  amcs_vmax * (tai - s.command_time_tai) >= length

LouverFields(s, l) ==
    <<s.position_actual[l], s.position_commanded[l], s.current_state[l],
      s.start_state[l], s.target_state[l]>>

\* Every louver is Stationary at its commanded position with no motion
\* ahead.
LouversSettled ==
    \A l \in Louvers :
        /\ lcs.current_state[l] = STATIONARY
        /\ lcs.start_state[l] = STATIONARY
        /\ lcs.position_actual[l] = lcs.position_commanded[l]

\* C29: setLouvers(pos) for louvers at rest commands pos[i] for every
\* louver i with pos[i] in [0, 100] and leaves position, commanded
\* position and states of every louver with pos[i] = -1 as they are; the
\* evaluations of the status leave a louver at rest as it is; a louver
\* starts to move only with the brakes disengaged and is Stationary again
\* only after the motor power is off; and with enough evaluations every
\* louver is Stationary again at its commanded position.
C29_SetLouversMovesAndSettles ==
    /\ [][\A position \in LouverCommands :
             (LouversAtRest /\ PlantSetLouvers(position))
                 => \A l \in Louvers :
                       IF position[l] = -1
                       THEN LouverFields(lcs', l) = LouverFields(lcs, l)
                       ELSE lcs'.position_commanded[l] = position[l]]_vars
    /\ [][PlantDetermineStatus("LCS")
             => \A l \in Louvers :
                   /\ (lcs.current_state[l] = STATIONARY
                          /\ lcs.start_state[l] = STATIONARY)
                         => LouverFields(lcs', l) = LouverFields(lcs, l)
                   /\ (lcs'.current_state[l] = MOVING
                          /\ lcs.current_state[l] # MOVING)
                         => lcs.current_state[l] = BRAKES_DISENGAGED
                   /\ (lcs'.current_state[l] = STATIONARY
                          /\ lcs.current_state[l] # STATIONARY)
                         => /\ lcs.current_state[l] = MOTOR_POWER_OFF
                            /\ lcs.position_actual[l]
                                   = lcs.position_commanded[l]]_vars
    /\ (LouverCommanded ~> LouversSettled)

\* After all louvers were set to 10, the first and the last louver were set
\* to 5 and the others not moved: the two are at 5, the others still at 10,
\* and all are Stationary.
C29_Witness ==
    /\ LouversSettled
    /\ plant_call.method = "determine_status"
    /\ \A l \in Louvers :
          lcs.position_actual[l]
              = IF l \in {0, LCS_NUM_LOUVERS - 1} THEN 5 ELSE 10

\* C30: in every status of the LCS, powerDraw is LOUVERS_POWER_DRAW when
\* at least one louver is moving and 0 when no louver is moving.
C30_PowerDrawIffSomeLouverMoving ==
    plant_call.method = "determine_status"
        => lcs.power_draw
               = IF \E l \in Louvers : lcs.current_state[l] = MOVING
                 THEN LOUVERS_POWER_DRAW ELSE 0

\* A position that is neither in [0, 100] nor -1.
OutOfRange(position) ==
    \E l \in Louvers :
        position[l] # -1 /\ (position[l] < 0 \/ position[l] > 100)

\* C31: setLouvers with a position outside [0, 100] other than -1 is
\* rejected (the call raises, which the dispatcher answers as bad
\* parameters), and the rejected call changes no commanded position, start
\* state or target state.
C31_OutOfRangeLouversRejected ==
    [][\A position \in LouverRangeCommands :
          (OutOfRange(position) /\ PlantSetLouvers(position))
              => /\ plant_call'.raised
                 /\ lcs'.position_commanded = lcs.position_commanded
                 /\ lcs'.start_state = lcs.start_state
                 /\ lcs'.target_state = lcs.target_state]_vars

\* The state or the temperatures of the thermal control have changed.
ThcsStateOrTemperaturesChange ==
    \/ thcs'.current_state # thcs.current_state
    \/ thcs'.drive_temperature # thcs.drive_temperature
    \/ thcs'.motor_coil_temperature # thcs.motor_coil_temperature
    \/ thcs'.cabinet_temperature # thcs.cabinet_temperature

\* C32: as long as the current state of the thermal control is not its
\* target state (ENABLED after start_cooling, DISABLED after
\* stop_cooling), an evaluation of the state changes the current state, so
\* that repeated evaluation reaches the target; an evaluation goes one
\* step, to ENABLED only from ENABLING and to DISABLED only from
\* DISABLING; start_cooling and stop_cooling change the target state only.
C32_CoolingReachesTarget ==
    /\ [](thcs.current_state # thcs.target_state
             => thcs_evaluate_state(thcs).current_state # thcs.current_state)
    /\ [][ThcsDetermineStatus
             => /\ (thcs'.current_state = ENABLED_NAME
                       /\ thcs.current_state # ENABLED_NAME)
                      => thcs.current_state = ENABLING
                /\ (thcs'.current_state = DISABLED
                       /\ thcs.current_state # DISABLED)
                      => thcs.current_state = DISABLING
                /\ thcs'.target_state = thcs.target_state]_vars
    /\ [][(ThcsStartCooling \/ ThcsStopCooling)
             => ~ThcsStateOrTemperaturesChange]_vars

\* C38: the current state of the thermal control is always one of
\* DISABLED, ENABLING, ENABLED and DISABLING, and set_temperature changes
\* neither the current state nor the target state.
C38_ThermalStateInMachine ==
    /\ [](thcs.current_state
             \in {DISABLED, ENABLING, ENABLED_NAME, DISABLING})
    /\ [][(\E temperature \in ThcsTemperatures :
              ThcsSetTemperature(temperature))
             => /\ thcs'.current_state = thcs.current_state
                /\ thcs'.target_state = thcs.target_state]_vars

\* The age of an entry of the table of the watchdog.
WatchedAge(command_id) ==
    watchdog.tai - watchdog.commands_without_reply[command_id]

\* C33: a run of the reply watchdog removes exactly the entries whose age
\* is at least 2 * COMMANDS_REPLIED_PERIOD and logs them as given up, logs
\* exactly the entries whose age is at least COMMANDS_REPLIED_PERIOD and
\* less than twice that as still waiting and keeps them, and keeps every
\* younger entry as it is.
C33_WatchdogRemovesOldEntries ==
    [][WatchdogCheck
          => \A command_id \in DOMAIN watchdog.commands_without_reply :
                LET age == WatchedAge(command_id)
                    kept ==
                        /\ command_id
                               \in DOMAIN watchdog'.commands_without_reply
                        /\ watchdog'.commands_without_reply[command_id]
                               = watchdog.commands_without_reply[command_id]
                IN  /\ age >= 2 * COMMANDS_REPLIED_PERIOD
                          => /\ command_id \notin
                                    DOMAIN watchdog'.commands_without_reply
                             /\ command_id \in watchdog'.commands_to_remove
                             /\ command_id \notin
                                    watchdog'.commands_still_waiting
                    /\ (age >= COMMANDS_REPLIED_PERIOD
                           /\ age < 2 * COMMANDS_REPLIED_PERIOD)
                          => /\ kept
                             /\ command_id
                                    \in watchdog'.commands_still_waiting
                             /\ command_id \notin watchdog'.commands_to_remove
                    /\ age < COMMANDS_REPLIED_PERIOD
                          => /\ kept
                             /\ command_id \notin
                                    watchdog'.commands_still_waiting
                             /\ command_id \notin
                                    watchdog'.commands_to_remove]_vars

\* A run of the watchdog has given up an entry of age 2 *
\* COMMANDS_REPLIED_PERIOD, reported one of age COMMANDS_REPLIED_PERIOD and
\* kept it with a younger one.
C33_Witness ==
    /\ watchdog.checked = watchdog.tai
    /\ \E removed \in watchdog.commands_to_remove,
          waiting \in watchdog.commands_still_waiting,
          young \in DOMAIN watchdog.commands_without_reply :
          /\ removed \notin DOMAIN watchdog.commands_without_reply
          /\ waiting \in DOMAIN watchdog.commands_without_reply
          /\ WatchedAge(waiting) = COMMANDS_REPLIED_PERIOD
          /\ WatchedAge(young) < COMMANDS_REPLIED_PERIOD

\* C34: the command exitFaultEl calls exit_fault of the LWSCS and leaves
\* the LCS as it is, and the command exitFaultLouvers calls exit_fault of
\* the LCS and leaves the LWSCS as it is.
C34_ExitFaultReachesOwnSubsystem ==
    [][/\ ExitFaultEl
             => /\ lcs' = lcs
                /\ lwscs' = lwscs_exit_fault(lwscs, current_tai).llc
       /\ ExitFaultLouvers
             => /\ lwscs' = lwscs
                /\ lcs' = lcs_exit_fault(lcs, current_tai).llc]_vars

\* stopLouvers has been accepted while a louver was moving.
LouversStopCommanded ==
    /\ plant_call.method = "stop"
    /\ \E l \in Louvers : lcs.current_state[l] = MOVING

\* Every louver reports STOPPED without drive current, and the LCS reports
\* no power draw.
LouversStopped ==
    /\ \A l \in Louvers :
          /\ lcs.current_state[l] = STOPPED
          /\ lcs.drive_current_actual[l] = 0
    /\ lcs.power_draw = 0

\* C36: while stopLouvers is in force (the target state of the louvers is
\* STOPPED) no position of a louver changes, and a stopLouvers that was
\* accepted while a louver was moving and the clock can still move leads,
\* with the evaluations of the status, to every louver STOPPED with no
\* drive current and powerDraw 0.
C36_StopLouversStopsLouvers ==
    /\ [][(\A l \in Louvers : lcs'.target_state[l] = STOPPED)
             => lcs'.position_actual = lcs.position_actual]_vars
    /\ (LouversStopCommanded /\ current_tai < MaxTai) ~> LouversStopped

\* A go_stationary of the louvers is in force: no setLouvers and no
\* stopLouvers has been accepted since.
GoStationaryInForce == plant_call.phase = "go_stationary"

\* C37: from the moment goStationaryLouvers is accepted until a new motion
\* command or stop, no position of a louver changes, and with the
\* evaluations of the status every louver comes to STATIONARY.
C37_GoStationaryHoldsLouvers ==
    /\ [][GoStationaryInForce'
             => lcs'.position_actual = lcs.position_actual]_vars
    /\ GoStationaryInForce
           ~> (\/ ~GoStationaryInForce
               \/ \A l \in Louvers : lcs.current_state[l] = STATIONARY)

\* exit_fault of the louvers has succeeded.
LouversExitedFault ==
    plant_call.method = "exit_fault" /\ ~plant_call.raised

\* C35: after a successful exit_fault of the louvers, given while the clock
\* can still move, the evaluations of the status bring every louver to STATIONARY (unless a new fault is set), and
\* a setLouvers after the recovery from a fault brings every louver to its
\* commanded position.
C35_LouversRecoverFromFault ==
    /\ (LouversExitedFault /\ current_tai < MaxTai)
           ~> (\/ \A l \in Louvers : lcs.current_state[l] = STATIONARY
               \/ plant_call.method = "set_fault")
    /\ (plant_call.phase = "exited" /\ plant_call.method = "move"
            /\ LouverCommanded)
           ~> (LouversSettled \/ plant_call.phase # "exited")

\* C39: the mode by which the power management handler gives priorities
\* and stop companions to the commands it is handed and takes them out of
\* the queue is the power management mode of the bridge, also after
\* set_power_management_mode has changed the latter.
C39_BridgeAndHandlerAgree == handler_mode = power_management_mode

\* C40: once started, the task of query_status never ends, whatever the
\* set of telemetry callbacks; and when the status method of a subsystem
\* has raised, the tick goes on to the next subsystem.
C40_PollingSurvivesFailures ==
    /\ [](polling.started => polling.alive)
    /\ [][polling'.failed # polling.failed /\ polling'.failed # {}
             => /\ polling'.alive
                /\ polling'.pos = polling.pos + 1]_vars

====
